---- MODULE Spec2Model ----
(***************************************************************************)
(* Model of the leaderboard engine of backend/main.go: the Leaderboard     *)
(* struct (users, scoreBuckets, mu) and its operations AddOrUpdateUser,    *)
(* CalculateRank, SearchUsers, GetTopLeaderboard and handleStats, run by   *)
(* concurrent goroutines, its HTTP handlers, the traffic simulator and     *)
(* main, and of the two screens of the React Native client that call the   *)
(* server.                                                                 *)
(*                                                                         *)
(* Scaling.  The rating range 100..5000 is scaled to MinRating..MaxRating  *)
(* = 1..3 and SearchLimit 50 to 2; the code uses the constants only        *)
(* through their names, and cell 0 stands for the cells below MinRating.   *)
(* The literals 100 and 1000 of handleLeaderboard are scaled to            *)
(* LimitDefault = 2 and LimitMax = 3, the simulator's batch of 10 to       *)
(* BatchSize = 2 and the 10000 seed users to SeedCount = 2.                *)
(* Of the client, the search screen's 300 ms delay is scaled to Debounce =  *)
(* 2 clock ticks and the leaderboard screen's page of 100 rows to PageSize *)
(* = 1.                                                                    *)
(* A username is the sequence of its bytes, so that byte order and ASCII   *)
(* case folding are computed and not assumed.                              *)
(***************************************************************************)
EXTENDS Integers, Sequences, FiniteSets, TLC

\* ---------------------------------------------------------------- constants
MinRating == 1
MaxRating == 3
BucketSize == MaxRating + 1
SearchLimit == 2
\* handleLeaderboard: limit := 100, and the bound in limit > 1000
LimitDefault == 2
LimitMax == 3
\* SimulateTraffic: updateCount := 10
BatchSize == 2
\* main: the seed loop's 10000
SeedCount == 2
\* SearchScreen: the delay of setTimeout(..., 300)
Debounce == 2
\* LeaderboardScreen: the page of 100 rows
PageSize == 1

\* ------------------------------------------------------------------- bounds
NumThreads == 2
\* the keystrokes the user makes, the time the clock runs to, and the page up
\* to which the user scrolls
MaxKeys == 2
MaxTime == 4
MaxPage == 4

\* the goroutines that call the engine concurrently: goroutine 1 is a mutator
\* (it only upserts, as the seed loop and the simulator do), the others are
\* callers that may run any operation of the engine
Threads == 1..NumThreads
Callers == Threads \ {1}

\* Inputs of the concurrent specification Spec.
\* usernames "a", "Ab"
Usernames == {<<97>>, <<65, 98>>}
\* queries "", "A"
Queries == {<< >>, <<65>>}
\* ratings: both ends of the valid range and one beyond each end
RatingInputs == {MinRating - 1, MinRating, MaxRating, MaxRating + 1}
\* limits: a limit above the population behaves as the population
Limits == 1..Cardinality(Usernames)

\* Inputs of the sequential specification SpecSeq: one goroutine, more data.
SeqThreads == {1}
\* usernames "a", "Ab", "B", "ab": byte order is "Ab" < "B" < "a" < "ab"
SeqUsernames == {<<97>>, <<65, 98>>, <<66>>, <<97, 98>>}
\* queries "", "a", "A", "B", "AB"
SeqQueries == {<< >>, <<97>>, <<65>>, <<66>>, <<65, 66>>}
SeqRatingInputs == (MinRating - 1)..(MaxRating + 1)
\* limits: a negative one, 0, and up to one more than the population
SeqLimits == (0 - 1)..(Cardinality(SeqUsernames) + 1)

\* Inputs of the HTTP specification SpecHttp: one goroutine serving requests.
\* An HTTP request is its method and its URL query, a set of <<key, value>> pairs.
GetRequest(params) == [method |-> "GET", params |-> params]
OptionsRequest == [method |-> "OPTIONS", params |-> {}]
\* limit values "", "abc", "0", "-1", "1", "3", "4", "12", "1x"
LimitStrings ==
    {<< >>, <<97, 98, 99>>, <<48>>, <<45, 49>>, <<49>>, <<51>>, <<52>>, <<49, 50>>, <<49, 120>>}
LeaderboardRequests ==
    {GetRequest({})} \cup {GetRequest({<<"limit", v>>}) : v \in LimitStrings}
        \cup {OptionsRequest}
\* requests to /search that carry no query: parameter absent, parameter empty
EmptySearchRequests == {GetRequest({}), GetRequest({<<"username", << >> >>})}
\* requests to /stats
StatsRequests == {GetRequest({}), OptionsRequest}
\* username values "a", "A", "AB"
SearchRequests ==
    EmptySearchRequests
        \cup {GetRequest({<<"username", v>>}) : v \in {<<97>>, <<65>>, <<65, 66>>}}
        \cup {OptionsRequest}

Ratings == MinRating..MaxRating

VARIABLES
    users,          \* lb.users: username -> User record
    scoreBuckets,   \* lb.scoreBuckets: index 0..MaxRating -> count
    mu,             \* lb.mu: [writer |-> thread holding/announcing Lock or 0, readers |-> set]
    pc,             \* per goroutine: position in the operation it runs
    op,             \* per goroutine: the call it runs and its arguments
    visited,        \* per goroutine: keys already produced by its range over lb.users
    usersByRating,  \* per goroutine: GetTopLeaderboard's transient grouping
    matches,        \* per goroutine: SearchUsers' matches
    resp,           \* per goroutine: the value returned
    serial,         \* history: username -> rating after the Upserts committed so far, in commit order
    snap,           \* history: per goroutine, serial at the moment it acquired the read lock
    sim,            \* SimulateTraffic: stopChan, ticker.C and the locals of the loop
    boot,           \* main: its position and the index of the seed loop
    searchScreen,   \* client, SearchScreen: its React state
    leaderboardScreen, \* client, LeaderboardScreen: its React state
    runtime,        \* client, JavaScript runtime: the clock, the timers set, the requests in flight
    clientLog       \* history: the keystrokes handled and the search requests sent

vars == <<users, scoreBuckets, mu, pc, op, visited, usersByRating, matches, resp, serial, snap,
          sim, boot, searchScreen, leaderboardScreen, runtime, clientLog>>

NoOp == [kind |-> "none"]
NoResp == [kind |-> "none"]
EmptyMap == << >>

\* ------------------------------------------------------------ pure helpers

\* strings.ToLower on one ASCII byte
ToLowerByte(c) == IF c >= 65 /\ c <= 90 THEN c + 32 ELSE c

\* strings.ToLower
ToLower(s) == [i \in 1..Len(s) |-> ToLowerByte(s[i])]

\* strings.HasPrefix
HasPrefix(s, prefix) ==
    Len(s) >= Len(prefix) /\ SubSeq(s, 1, Len(prefix)) = prefix

\* Go's < on strings: lexicographic comparison of the bytes
RECURSIVE StrLessFrom(_, _, _)
StrLessFrom(a, b, i) ==
    IF i > Len(a) THEN i <= Len(b)
    ELSE IF i > Len(b) THEN FALSE
    ELSE IF a[i] # b[i] THEN a[i] < b[i]
    ELSE StrLessFrom(a, b, i + 1)

StrLess(a, b) == StrLessFrom(a, b, 1)

\* insertion of one string into a sorted sequence
RECURSIVE InsertSorted(_, _)
InsertSorted(x, s) ==
    IF s = << >> THEN <<x>>
    ELSE IF StrLess(x, Head(s)) THEN <<x>> \o s
    ELSE <<Head(s)>> \o InsertSorted(x, Tail(s))

\* faulty variant: the group is left in map iteration order
SortStringsOmitted(s) == s

\* sort.Strings: ascending byte order
RECURSIVE SortStrings(_)
SortStrings(s) ==
    IF s = << >> THEN << >> ELSE InsertSorted(Head(s), SortStrings(Tail(s)))

\* the less function SearchUsers hands to sort.Slice
SearchLess(x, y) == x.Rating > y.Rating

\* sort.Slice is not stable: every arrangement of the slice that the less
\* function accepts as sorted is a possible outcome
SortSliceOutcomes(s) ==
    LET n == Len(s)
        perms == {p \in [1..n -> 1..n] : \A i, j \in 1..n : i # j => p[i] # p[j]}
        arranged == {[i \in 1..n |-> s[p[i]]] : p \in perms}
    IN {r \in arranged : \A i, j \in 1..n : i < j => ~SearchLess(r[j], r[i])}

\* faulty variant: the cut keeps the last SearchLimit rows of the sorted slice
TruncateTail(s) ==
    IF Len(s) > SearchLimit THEN SubSeq(s, Len(s) - SearchLimit + 1, Len(s)) ELSE s

\* matches[:SearchLimit] when len(matches) > SearchLimit
Truncate(s) == IF Len(s) > SearchLimit THEN SubSeq(s, 1, SearchLimit) ELSE s

\* faulty variant: the loop starts one cell below MaxRating
RECURSIVE RankLoopBelowTop(_, _, _)
RankLoopBelowTop(i, rating, sum) ==
    IF i > rating
    THEN RankLoopBelowTop(i - 1, rating, sum + (IF i = MaxRating THEN 0 ELSE scoreBuckets[i]))
    ELSE sum

\* the loop of CalculateRank: for i := MaxRating; i > rating; i-- { sum += scoreBuckets[i] }
RECURSIVE RankLoop(_, _, _)
RankLoop(i, rating, sum) ==
    IF i > rating THEN RankLoop(i - 1, rating, sum + scoreBuckets[i]) ELSE sum

\* faulty variant: the loop runs while i >= rating, counting the rating's own cell
CalculateRankInclusive(rating) == 1 + RankLoop(MaxRating, rating - 1, 0)

\* faulty variant: the sum is returned without the leading 1
CalculateRankZeroBased(rating) == RankLoop(MaxRating, rating, 0)

CalculateRank(rating) == 1 + RankLoop(MaxRating, rating, 0)

\* faulty variant: only the upper end of the range is checked
InvalidRatingUpperOnly(rating) == rating > MaxRating

\* the rating check at the head of AddOrUpdateUser
InvalidRating(rating) == rating < MinRating \/ rating > MaxRating

\* faulty variant: the users of one rating get consecutive ranks
RECURSIVE AppendGroupOrdinal(_, _, _, _, _, _)
AppendGroupOrdinal(leaderboard, group, i, limit, rank, rating) ==
    IF i > Len(group) \/ Len(leaderboard) >= limit THEN leaderboard
    ELSE AppendGroupOrdinal(Append(leaderboard,
                                   [Rank |-> rank + i - 1, Username |-> group[i], Rating |-> rating]),
                            group, i + 1, limit, rank, rating)

\* GetTopLeaderboard, inner loop: for _, username := range users { if len >= limit break; append }
RECURSIVE AppendGroup(_, _, _, _, _, _)
AppendGroup(leaderboard, group, i, limit, rank, rating) ==
    IF i > Len(group) \/ Len(leaderboard) >= limit THEN leaderboard
    ELSE AppendGroup(Append(leaderboard,
                            [Rank |-> rank, Username |-> group[i], Rating |-> rating]),
                     group, i + 1, limit, rank, rating)

\* faulty variant: the running rank advances by one per rating group
RECURSIVE TopLoopDense(_, _, _, _, _)
TopLoopDense(byRating, limit, rating, rank, leaderboard) ==
    IF rating >= MinRating /\ Len(leaderboard) < limit
    THEN IF rating \in DOMAIN byRating
         THEN LET group == SortStrings(byRating[rating])
              IN TopLoopDense(byRating, limit, rating - 1, rank + 1,
                              AppendGroup(leaderboard, group, 1, limit, rank, rating))
         ELSE TopLoopDense(byRating, limit, rating - 1, rank, leaderboard)
    ELSE leaderboard

\* GetTopLeaderboard, outer loop: for rating := MaxRating; rating >= MinRating && len < limit; rating--
RECURSIVE TopLoop(_, _, _, _, _)
TopLoop(byRating, limit, rating, rank, leaderboard) ==
    IF rating >= MinRating /\ Len(leaderboard) < limit
    THEN IF rating \in DOMAIN byRating
         THEN LET group == SortStrings(byRating[rating])
              IN TopLoop(byRating, limit, rating - 1, rank + Len(group),
                         AppendGroup(leaderboard, group, 1, limit, rank, rating))
         ELSE TopLoop(byRating, limit, rating - 1, rank, leaderboard)
    ELSE leaderboard

\* faulty variant: a limit of 0 or less is replaced by the default before the loop
BuildLeaderboardClamping(byRating, limit) ==
    TopLoop(byRating, IF limit <= 0 THEN LimitDefault ELSE limit, MaxRating, 1, << >>)

\* the part of GetTopLeaderboard after RUnlock
BuildLeaderboard(byRating, limit) == TopLoop(byRating, limit, MaxRating, 1, << >>)

\* faulty variant: the username replaces its rating group instead of joining it
GroupAppendOverwrite(byRating, rating, username) ==
    IF rating \in DOMAIN byRating
    THEN [byRating EXCEPT ![rating] = <<username>>]
    ELSE (rating :> <<username>>) @@ byRating

\* usersByRating[user.Rating] = append(usersByRating[user.Rating], username)
GroupAppend(byRating, rating, username) ==
    IF rating \in DOMAIN byRating
    THEN [byRating EXCEPT ![rating] = Append(@, username)]
    ELSE (rating :> <<username>>) @@ byRating

\* lb.users[username] = &User{...}
MapStore(m, key, value) ==
    IF key \in DOMAIN m THEN [m EXCEPT ![key] = value] ELSE (key :> value) @@ m

\* faulty variant: the old cell is left as it is
DecrementOldSkipped(m, buckets, username) == buckets

\* if user, exists := lb.users[username]; exists { lb.scoreBuckets[user.Rating]-- }
DecrementOld(m, buckets, username) ==
    IF username \in DOMAIN m
    THEN [buckets EXCEPT ![m[username].Rating] = @ - 1]
    ELSE buckets

\* faulty variant: the increment spills into the cell above as well
IncrementNewSpilling(buckets, rating) ==
    [c \in DOMAIN buckets |-> IF c \in {rating, rating + 1} THEN buckets[c] + 1 ELSE buckets[c]]

\* lb.scoreBuckets[rating]++
IncrementNew(buckets, rating) == [buckets EXCEPT ![rating] = @ + 1]

\* faulty variant: the store replaces the whole map by the one entry
StoreUserDroppingOthers(m, username, rating) ==
    username :> [Username |-> username, Rating |-> rating]

\* lb.users[username] = &User{Username: username, Rating: rating}
StoreUser(m, username, rating) ==
    MapStore(m, username, [Username |-> username, Rating |-> rating])

\* faulty variant: the record is replaced first, so that the decrement finds
\* the new rating
UpsertedStoreFirst(e, username, rating) ==
    IF InvalidRating(rating) THEN e
    ELSE LET stored == StoreUser(e.users, username, rating)
             decremented == DecrementOld(stored, e.scoreBuckets, username)
         IN [users |-> stored, scoreBuckets |-> IncrementNew(decremented, rating)]

\* AddOrUpdateUser as a function of the engine state e = [users, scoreBuckets]:
\* the state one uninterrupted call leaves
Upserted(e, username, rating) ==
    IF InvalidRating(rating) THEN e
    ELSE LET decremented == DecrementOld(e.users, e.scoreBuckets, username)
             incremented == IncrementNew(decremented, rating)
         IN [users |-> StoreUser(e.users, username, rating), scoreBuckets |-> incremented]

\* r.URL.Query().Get(key): the value of the parameter, "" when it is absent
QueryGet(params, key) ==
    IF \E p \in params : p[1] = key
    THEN (CHOOSE p \in params : p[1] = key)[2]
    ELSE << >>

\* the digits fmt's integer scan consumes from position i on: their count and value
RECURSIVE ScanDigits(_, _, _, _)
ScanDigits(s, i, count, value) ==
    IF i <= Len(s) /\ s[i] \in 48..57
    THEN ScanDigits(s, i + 1, count + 1, 10 * value + (s[i] - 48))
    ELSE [count |-> count, value |-> value]

\* fmt.Sscanf(s, "%d", &n) on an input without white space, as the value n
\* holds afterwards: an optional sign, then the longest run of digits; what
\* follows the digits is left unread and is no error; with no digit the scan
\* fails and n keeps the value it had (the handler drops the error)
SscanfInt(s, n) ==
    LET signed == s # << >> /\ s[1] \in {43, 45}
        scanned == ScanDigits(s, IF signed THEN 2 ELSE 1, 0, 0)
    IN IF scanned.count = 0 THEN n
       ELSE IF signed /\ s[1] = 45 THEN 0 - scanned.value
       ELSE scanned.value

\* handleLeaderboard: the limit it hands to GetTopLeaderboard
HandlerLimit(request) ==
    LET limitStr == QueryGet(request.params, "limit")
    IN IF limitStr # << >>
       THEN LET limit == SscanfInt(limitStr, LimitDefault)
            IN IF limit <= 0 \/ limit > LimitMax THEN LimitDefault ELSE limit
       ELSE LimitDefault

\* ------------------------------------------------------------------- Init

Init ==
    /\ users = EmptyMap
    /\ scoreBuckets = [i \in 0..(BucketSize - 1) |-> 0]
    /\ mu = [writer |-> 0, readers |-> {}]
    /\ pc = [t \in Threads |-> "idle"]
    /\ op = [t \in Threads |-> NoOp]
    /\ visited = [t \in Threads |-> {}]
    /\ usersByRating = [t \in Threads |-> EmptyMap]
    /\ matches = [t \in Threads |-> << >>]
    /\ resp = [t \in Threads |-> NoResp]
    /\ serial = EmptyMap
    /\ snap = [t \in Threads |-> EmptyMap]
    /\ sim = [g |-> 0, stopped |-> FALSE, tick |-> FALSE, names |-> {}, i |-> 0,
              late |-> FALSE, drawn |-> << >>]
    /\ boot = [pos |-> "seed", i |-> 0]
    /\ searchScreen = [phase |-> "new", searchQuery |-> << >>, results |-> << >>,
                       isLoading |-> FALSE, debounceTimer |-> 0, shown |-> << >>]
    /\ leaderboardScreen = [phase |-> "new", data |-> << >>, isLoading |-> TRUE, page |-> 1,
                            isLoadingMore |-> FALSE]
    /\ runtime = [now |-> 0, timers |-> {}, pending |-> {}]
    /\ clientLog = [keys |-> << >>, sent |-> {}]

\* --------------------------------------------------------------- sync.RWMutex

\* lb.mu.Lock(), first half: take the writers' mutex and announce the writer,
\* after which new RLock calls block
CanAnnounce(t) == mu.writer = 0

\* faulty variant: a write lock that does not wait for the readers to leave
CanLockIgnoringReaders(t) == mu.writer = t

\* lb.mu.Lock(), second half: the announced writer proceeds once the readers have left
CanLock(t) == mu.writer = t /\ mu.readers = {}

\* faulty variant: a reader-preferring lock, whose RLock waits only for a
\* writer that holds the lock and not for one that has announced itself
CanRLockReaderPreferring(t) == IF mu.writer = 0 THEN TRUE ELSE pc[mu.writer] = "u_wait"

\* faulty variant: a read lock that does not wait for the writer
CanRLockAlways(t) == TRUE

\* lb.mu.RLock(): proceeds unless a writer holds or has announced
CanRLock(t) == mu.writer = 0

RLocked(t) == [mu EXCEPT !.readers = @ \cup {t}]
RUnlocked(t) == [mu EXCEPT !.readers = @ \ {t}]

locals == <<visited, usersByRating, matches>>
client == <<searchScreen, leaderboardScreen, runtime, clientLog>>
background == <<sim, boot, client>>
ghost == <<serial, snap>>
engine == <<users, scoreBuckets>>

\* ------------------------------------------------------------ AddOrUpdateUser

\* call, with the rating check: an invalid rating returns the error at once
AddOrUpdateUser(t, username, rating) ==
    /\ pc[t] = "idle"
    /\ op' = [op EXCEPT ![t] = [kind |-> "upsert", username |-> username, rating |-> rating]]
    /\ IF InvalidRating(rating)
       THEN /\ pc' = [pc EXCEPT ![t] = "done"]
            /\ resp' = [resp EXCEPT ![t] = [kind |-> "error"]]
       ELSE /\ pc' = [pc EXCEPT ![t] = "u_lock"]
            /\ resp' = resp
    /\ UNCHANGED <<background, engine, mu, locals, ghost>>

UpsertAnnounce(t) ==
    /\ pc[t] = "u_lock"
    /\ CanAnnounce(t)
    /\ mu' = [mu EXCEPT !.writer = t]
    /\ pc' = [pc EXCEPT ![t] = "u_wait"]
    /\ UNCHANGED <<background, engine, op, locals, resp, ghost>>

UpsertLock(t) ==
    /\ pc[t] = "u_wait"
    /\ CanLock(t)
    /\ pc' = [pc EXCEPT ![t] = "u_dec"]
    /\ UNCHANGED <<background, engine, mu, op, locals, resp, ghost>>

\* faulty variant: the old bucket is not decremented
UpsertDecrementSkipped(t) ==
    /\ pc[t] = "u_dec"
    /\ pc' = [pc EXCEPT ![t] = "u_inc"]
    /\ UNCHANGED <<background, engine, mu, op, locals, resp, ghost>>

\* if user, exists := lb.users[username]; exists { lb.scoreBuckets[user.Rating]-- }
UpsertDecrement(t) ==
    /\ pc[t] = "u_dec"
    /\ scoreBuckets' = DecrementOld(users, scoreBuckets, op[t].username)
    /\ pc' = [pc EXCEPT ![t] = "u_inc"]
    /\ UNCHANGED <<background, users, mu, op, locals, resp, ghost>>

\* faulty variant: the cell of the user's old rating is incremented when the user exists
UpsertIncrementOld(t) ==
    /\ pc[t] = "u_inc"
    /\ scoreBuckets' = IF op[t].username \in DOMAIN users
                       THEN [scoreBuckets EXCEPT ![users[op[t].username].Rating] = @ + 1]
                       ELSE [scoreBuckets EXCEPT ![op[t].rating] = @ + 1]
    /\ pc' = [pc EXCEPT ![t] = "u_store"]
    /\ UNCHANGED <<background, users, mu, op, locals, resp, ghost>>

\* lb.scoreBuckets[rating]++
UpsertIncrement(t) ==
    /\ pc[t] = "u_inc"
    /\ scoreBuckets' = IncrementNew(scoreBuckets, op[t].rating)
    /\ pc' = [pc EXCEPT ![t] = "u_store"]
    /\ UNCHANGED <<background, users, mu, op, locals, resp, ghost>>

\* lb.users[username] = &User{Username: username, Rating: rating}
UpsertStore(t) ==
    /\ pc[t] = "u_store"
    /\ users' = StoreUser(users, op[t].username, op[t].rating)
    /\ serial' = MapStore(serial, op[t].username, op[t].rating)
    /\ pc' = [pc EXCEPT ![t] = "u_unlock"]
    /\ UNCHANGED <<background, scoreBuckets, mu, op, locals, resp, snap>>

\* return nil, running the deferred lb.mu.Unlock()
UpsertUnlock(t) ==
    /\ pc[t] = "u_unlock"
    /\ mu' = [mu EXCEPT !.writer = 0]
    /\ pc' = [pc EXCEPT ![t] = "done"]
    /\ resp' = [resp EXCEPT ![t] = [kind |-> "ok"]]
    /\ UNCHANGED <<background, engine, op, locals, ghost>>

\* ---------------------------------------------------------------- SearchUsers

\* faulty variant: the empty query is not returned early and goes on to the lock
SearchUsersNoEmptyCheck(t, query) ==
    /\ pc[t] = "idle"
    /\ op' = [op EXCEPT ![t] = [kind |-> "search", query |-> query]]
    /\ pc' = [pc EXCEPT ![t] = "s_rlock"]
    /\ UNCHANGED <<background, engine, mu, locals, resp, ghost>>

\* call: the empty query returns the empty slice before any locking
SearchUsers(t, query) ==
    /\ pc[t] = "idle"
    /\ op' = [op EXCEPT ![t] = [kind |-> "search", query |-> query]]
    /\ IF query = << >>
       THEN /\ pc' = [pc EXCEPT ![t] = "done"]
            /\ resp' = [resp EXCEPT ![t] = [kind |-> "results", rows |-> << >>]]
       ELSE /\ pc' = [pc EXCEPT ![t] = "s_rlock"]
            /\ resp' = resp
    /\ UNCHANGED <<background, engine, mu, locals, ghost>>

\* lb.mu.RLock()
SearchRLock(t) ==
    /\ pc[t] = "s_rlock"
    /\ CanRLock(t)
    /\ mu' = RLocked(t)
    /\ snap' = [snap EXCEPT ![t] = serial]
    /\ pc' = [pc EXCEPT ![t] = "s_scan"]
    /\ UNCHANGED <<background, engine, op, locals, resp, serial>>

\* faulty variant: CalculateRank takes the read lock itself, and so waits
\* whenever a writer has announced itself
SearchScanRelocking(t) ==
    /\ pc[t] = "s_scan"
    /\ CanRLock(t)
    /\ \E username \in DOMAIN users \ visited[t] :
         LET user == users[username]
             rank == CalculateRank(user.Rating)
         IN /\ visited' = [visited EXCEPT ![t] = @ \cup {username}]
            /\ matches' = IF HasPrefix(ToLower(username), ToLower(op[t].query))
                          THEN [matches EXCEPT ![t] = Append(@,
                                   [Username |-> username, Rating |-> user.Rating,
                                    GlobalRank |-> rank])]
                          ELSE matches
    /\ UNCHANGED <<background, engine, mu, pc, op, usersByRating, resp, ghost>>

\* one iteration of for username, user := range lb.users: the map yields its
\* keys in an unspecified order, each key once
SearchScan(t) ==
    /\ pc[t] = "s_scan"
    /\ \E username \in DOMAIN users \ visited[t] :
         LET user == users[username]
             rank == CalculateRank(user.Rating)
         IN /\ visited' = [visited EXCEPT ![t] = @ \cup {username}]
            /\ matches' = IF HasPrefix(ToLower(username), ToLower(op[t].query))
                          THEN [matches EXCEPT ![t] = Append(@,
                                   [Username |-> username, Rating |-> user.Rating,
                                    GlobalRank |-> rank])]
                          ELSE matches
    /\ UNCHANGED <<background, engine, mu, pc, op, usersByRating, resp, ghost>>

\* range exhausted: sort.Slice, the SearchLimit cut, return with the deferred RUnlock
SearchReturn(t) ==
    /\ pc[t] = "s_scan"
    /\ DOMAIN users \ visited[t] = {}
    /\ \E sorted \in SortSliceOutcomes(matches[t]) :
         resp' = [resp EXCEPT ![t] = [kind |-> "results", rows |-> Truncate(sorted)]]
    /\ mu' = RUnlocked(t)
    /\ pc' = [pc EXCEPT ![t] = "done"]
    /\ visited' = [visited EXCEPT ![t] = {}]
    /\ matches' = [matches EXCEPT ![t] = << >>]
    /\ UNCHANGED <<background, engine, op, usersByRating, ghost>>

\* ---------------------------------------------------------- GetTopLeaderboard

GetTopLeaderboard(t, limit) ==
    /\ pc[t] = "idle"
    /\ op' = [op EXCEPT ![t] = [kind |-> "top", limit |-> limit]]
    /\ pc' = [pc EXCEPT ![t] = "t_rlock"]
    /\ UNCHANGED <<background, engine, mu, locals, resp, ghost>>

\* faulty variant: the scan starts without the read lock
TopRLockMissing(t) ==
    /\ pc[t] = "t_rlock"
    /\ snap' = [snap EXCEPT ![t] = serial]
    /\ pc' = [pc EXCEPT ![t] = "t_scan"]
    /\ UNCHANGED <<background, engine, mu, op, locals, resp, serial>>

\* lb.mu.RLock()
TopRLock(t) ==
    /\ pc[t] = "t_rlock"
    /\ CanRLock(t)
    /\ mu' = RLocked(t)
    /\ snap' = [snap EXCEPT ![t] = serial]
    /\ pc' = [pc EXCEPT ![t] = "t_scan"]
    /\ UNCHANGED <<background, engine, op, locals, resp, serial>>

\* faulty variant: the iteration takes the user out of the map, as the
\* unshipped GetLeaderboard does
TopScanDeleting(t) ==
    /\ pc[t] = "t_scan"
    /\ \E username \in DOMAIN users \ visited[t] :
         /\ visited' = [visited EXCEPT ![t] = @ \cup {username}]
         /\ usersByRating' = [usersByRating EXCEPT ![t] =
                                 GroupAppend(@, users[username].Rating, username)]
         /\ users' = [u \in DOMAIN users \ {username} |-> users[u]]
    /\ UNCHANGED <<background, scoreBuckets, mu, pc, op, matches, resp, ghost>>

\* one iteration of for username, user := range lb.users
TopScan(t) ==
    /\ pc[t] = "t_scan"
    /\ \E username \in DOMAIN users \ visited[t] :
         /\ visited' = [visited EXCEPT ![t] = @ \cup {username}]
         /\ usersByRating' = [usersByRating EXCEPT ![t] =
                                 GroupAppend(@, users[username].Rating, username)]
    /\ UNCHANGED <<background, engine, mu, pc, op, matches, resp, ghost>>

\* range exhausted: lb.mu.RUnlock()
TopRUnlock(t) ==
    /\ pc[t] = "t_scan"
    /\ DOMAIN users \ visited[t] = {}
    /\ mu' = RUnlocked(t)
    /\ pc' = [pc EXCEPT ![t] = "t_build"]
    /\ visited' = [visited EXCEPT ![t] = {}]
    /\ UNCHANGED <<background, engine, op, usersByRating, matches, resp, ghost>>

\* the rows are built from usersByRating alone, with no lock held
TopBuild(t) ==
    /\ pc[t] = "t_build"
    /\ resp' = [resp EXCEPT ![t] =
                   [kind |-> "rows", rows |-> BuildLeaderboard(usersByRating[t], op[t].limit)]]
    /\ pc' = [pc EXCEPT ![t] = "done"]
    /\ usersByRating' = [usersByRating EXCEPT ![t] = EmptyMap]
    /\ UNCHANGED <<background, engine, mu, op, visited, matches, ghost>>

\* ------------------------------------------------------------- GetLeaderboard
\* The variant no handler calls. Its locals are kept in op[t]: rating, rank,
\* userCount, i, username and the slice leaderboard.

GetLeaderboard(t, limit) ==
    /\ pc[t] = "idle"
    /\ op' = [op EXCEPT ![t] = [kind |-> "getLeaderboard", limit |-> limit,
                                 leaderboard |-> << >>, rank |-> 1, rating |-> MaxRating,
                                 userCount |-> 0, i |-> 0, username |-> << >>]]
    /\ pc' = [pc EXCEPT ![t] = "g_rlock"]
    /\ UNCHANGED <<background, engine, mu, locals, resp, ghost>>

\* lb.mu.RLock()
GetLeaderboardRLock(t) ==
    /\ pc[t] = "g_rlock"
    /\ CanRLock(t)
    /\ mu' = RLocked(t)
    /\ pc' = [pc EXCEPT ![t] = "g_bucket"]
    /\ UNCHANGED <<background, engine, op, locals, resp, ghost>>

\* rating >= MinRating && len(leaderboard) < limit
GetLeaderboardContinues(t) ==
    op[t].rating >= MinRating /\ Len(op[t].leaderboard) < op[t].limit

\* outer loop, condition true: userCount := lb.scoreBuckets[rating]; i := 0
GetLeaderboardBucket(t) ==
    /\ pc[t] = "g_bucket"
    /\ GetLeaderboardContinues(t)
    /\ op' = [op EXCEPT ![t].userCount = scoreBuckets[op[t].rating], ![t].i = 0]
    /\ pc' = [pc EXCEPT ![t] = "g_find"]
    /\ UNCHANGED <<background, engine, mu, locals, resp, ghost>>

\* the end of one turn of the outer loop: rank += userCount; rating--
NextBucket(frame) == [frame EXCEPT !.rank = @ + frame.userCount, !.rating = @ - 1]

\* faulty variant: the user found is left in the map
GetLeaderboardFindKeeping(t) ==
    /\ pc[t] = "g_find"
    /\ IF op[t].i >= op[t].userCount
       THEN /\ op' = [op EXCEPT ![t] = NextBucket(@)]
            /\ pc' = [pc EXCEPT ![t] = "g_bucket"]
       ELSE /\ pc' = [pc EXCEPT ![t] = "g_restore"]
            /\ LET found == {u \in DOMAIN users : users[u].Rating = op[t].rating}
               IN IF found = {}
                  THEN op' = [op EXCEPT ![t].username = << >>]
                  ELSE \E u \in found : op' = [op EXCEPT ![t].username = u]
    /\ UNCHANGED <<background, engine, mu, locals, resp, ghost>>

\* inner loop: i < userCount fails and the outer loop moves on, or the range
\* over lb.users finds some user of this rating (any of them, the order of a
\* map's range is not fixed), keeps its name and deletes it from the map, or
\* finds none and leaves username empty
GetLeaderboardFind(t) ==
    /\ pc[t] = "g_find"
    /\ IF op[t].i >= op[t].userCount
       THEN /\ op' = [op EXCEPT ![t] = NextBucket(@)]
            /\ pc' = [pc EXCEPT ![t] = "g_bucket"]
            /\ users' = users
       ELSE /\ pc' = [pc EXCEPT ![t] = "g_restore"]
            /\ LET found == {u \in DOMAIN users : users[u].Rating = op[t].rating}
               IN IF found = {}
                  THEN /\ op' = [op EXCEPT ![t].username = << >>]
                       /\ users' = users
                  ELSE \E u \in found :
                         /\ op' = [op EXCEPT ![t].username = u]
                         /\ users' = [v \in DOMAIN users \ {u} |-> users[v]]
    /\ UNCHANGED <<background, scoreBuckets, mu, locals, resp, ghost>>

\* if username != "" { append the row; lb.users[username] = &User{...} };
\* if len(leaderboard) >= limit { break }; otherwise i++
GetLeaderboardRestore(t) ==
    /\ pc[t] = "g_restore"
    /\ LET username == op[t].username
           row == [Rank |-> op[t].rank, Username |-> username, Rating |-> op[t].rating]
           leaderboard == IF username # << >>
                          THEN Append(op[t].leaderboard, row) ELSE op[t].leaderboard
           frame == [op[t] EXCEPT !.leaderboard = leaderboard, !.username = << >>]
       IN /\ users' = IF username # << >>
                       THEN StoreUser(users, username, op[t].rating) ELSE users
          /\ IF Len(leaderboard) >= op[t].limit
             THEN /\ op' = [op EXCEPT ![t] = NextBucket(frame)]
                  /\ pc' = [pc EXCEPT ![t] = "g_bucket"]
             ELSE /\ op' = [op EXCEPT ![t] = [frame EXCEPT !.i = @ + 1]]
                  /\ pc' = [pc EXCEPT ![t] = "g_find"]
    /\ UNCHANGED <<background, scoreBuckets, mu, locals, resp, ghost>>

\* outer loop, condition false: return leaderboard, with the deferred RUnlock
GetLeaderboardReturn(t) ==
    /\ pc[t] = "g_bucket"
    /\ ~GetLeaderboardContinues(t)
    /\ mu' = RUnlocked(t)
    /\ resp' = [resp EXCEPT ![t] = [kind |-> "leaderboard", rows |-> op[t].leaderboard]]
    /\ pc' = [pc EXCEPT ![t] = "done"]
    /\ UNCHANGED <<background, engine, op, locals, ghost>>

\* goroutine t is about to write lb.users inside GetLeaderboard
WritesMap(t) ==
    \/ pc[t] = "g_restore" /\ op[t].username # << >>
    \/ /\ pc[t] = "g_find"
       /\ op[t].i < op[t].userCount
       /\ \E u \in DOMAIN users : users[u].Rating = op[t].rating

\* goroutine t is about to read or write lb.users under the shared lock
AccessesMap(t) == pc[t] \in {"g_find", "g_restore", "s_scan", "t_scan", "st_read", "sim_scan"}

\* A write of the map by one goroutine while another accesses it is a data
\* race. Besides the outcomes in which the two accesses happen one after the
\* other, the Go runtime may detect the race ("fatal error: concurrent map
\* writes", "concurrent map read and map write") and end the process.
ConcurrentMapFatal ==
    /\ \E t \in Threads : \E r \in Threads \ {t} : WritesMap(t) /\ AccessesMap(r)
    /\ pc' = [t \in Threads |-> "fatal"]
    /\ UNCHANGED <<background, engine, mu, op, locals, resp, ghost>>

\* ----------------------------------------------------------------- handleStats

Stats(t) ==
    /\ pc[t] = "idle"
    /\ op' = [op EXCEPT ![t] = [kind |-> "stats"]]
    /\ pc' = [pc EXCEPT ![t] = "st_rlock"]
    /\ UNCHANGED <<background, engine, mu, locals, resp, ghost>>

\* lb.mu.RLock()
StatsRLock(t) ==
    /\ pc[t] = "st_rlock"
    /\ CanRLock(t)
    /\ mu' = RLocked(t)
    /\ snap' = [snap EXCEPT ![t] = serial]
    /\ pc' = [pc EXCEPT ![t] = "st_read"]
    /\ UNCHANGED <<background, engine, op, locals, resp, serial>>

\* "total_users": len(lb.users), then the deferred RUnlock
StatsRead(t) ==
    /\ pc[t] = "st_read"
    /\ resp' = [resp EXCEPT ![t] = [kind |-> "stats", total_users |-> Cardinality(DOMAIN users)]]
    /\ mu' = RUnlocked(t)
    /\ pc' = [pc EXCEPT ![t] = "done"]
    /\ UNCHANGED <<background, engine, op, locals, ghost>>

\* --------------------------------------------------------------- HTTP handlers

\* w.Header().Set(name, value)
SetHeader(h, name, value) == MapStore(h, name, value)

\* the three w.Header().Set calls every handler of the engine starts with
HandlerHeaders ==
    SetHeader(SetHeader(SetHeader(EmptyMap,
        "Access-Control-Allow-Origin", "*"),
        "Access-Control-Allow-Methods", "GET, OPTIONS"),
        "Content-Type", "application/json")

\* http.Error: the error text is sent as plain text, the other headers stay
HttpError(h) ==
    SetHeader(SetHeader(h, "Content-Type", "text/plain; charset=utf-8"),
              "X-Content-Type-Options", "nosniff")

\* handleSearch: OPTIONS is answered 200 at once, a missing or empty username
\* 400 at once; otherwise the handler calls lb.SearchUsers(query). op[t].headers
\* is the header map of the response writer.
HandleSearch(t, request) ==
    /\ pc[t] = "idle"
    /\ LET query == QueryGet(request.params, "username")
       IN IF request.method = "OPTIONS"
          THEN /\ op' = [op EXCEPT ![t] = [kind |-> "handleSearch", request |-> request,
                                            headers |-> HandlerHeaders]]
               /\ pc' = [pc EXCEPT ![t] = "done"]
               /\ resp' = [resp EXCEPT ![t] = [kind |-> "status", status |-> 200]]
          ELSE IF query = << >>
          THEN /\ op' = [op EXCEPT ![t] = [kind |-> "handleSearch", request |-> request,
                                            headers |-> HttpError(HandlerHeaders)]]
               /\ pc' = [pc EXCEPT ![t] = "done"]
               /\ resp' = [resp EXCEPT ![t] = [kind |-> "status", status |-> 400]]
          ELSE /\ op' = [op EXCEPT ![t] =
                            [kind |-> "search", query |-> query, request |-> request,
                             headers |-> HandlerHeaders]]
               /\ pc' = [pc EXCEPT ![t] = "s_rlock"]
               /\ resp' = resp
    /\ UNCHANGED <<background, engine, mu, locals, ghost>>

\* handleLeaderboard: OPTIONS is answered 200 at once; otherwise the handler
\* works out the limit and calls lb.GetTopLeaderboard(limit)
HandleLeaderboard(t, request) ==
    /\ pc[t] = "idle"
    /\ IF request.method = "OPTIONS"
       THEN /\ op' = [op EXCEPT ![t] = [kind |-> "handleLeaderboard", request |-> request,
                                         headers |-> HandlerHeaders]]
            /\ pc' = [pc EXCEPT ![t] = "done"]
            /\ resp' = [resp EXCEPT ![t] = [kind |-> "status", status |-> 200]]
       ELSE /\ op' = [op EXCEPT ![t] =
                         [kind |-> "top", limit |-> HandlerLimit(request), request |-> request,
                          headers |-> HandlerHeaders]]
            /\ pc' = [pc EXCEPT ![t] = "t_rlock"]
            /\ resp' = resp
    /\ UNCHANGED <<background, engine, mu, locals, ghost>>

\* handleStats: OPTIONS is answered 200 at once; otherwise the handler reads
\* the directory size under the shared lock
HandleStats(t, request) ==
    /\ pc[t] = "idle"
    /\ IF request.method = "OPTIONS"
       THEN /\ op' = [op EXCEPT ![t] = [kind |-> "handleStats", request |-> request,
                                         headers |-> HandlerHeaders]]
            /\ pc' = [pc EXCEPT ![t] = "done"]
            /\ resp' = [resp EXCEPT ![t] = [kind |-> "status", status |-> 200]]
       ELSE /\ op' = [op EXCEPT ![t] = [kind |-> "stats", request |-> request,
                                         headers |-> HandlerHeaders]]
            /\ pc' = [pc EXCEPT ![t] = "st_rlock"]
            /\ resp' = resp
    /\ UNCHANGED <<background, engine, mu, locals, ghost>>

\* -------------------------------------------------------------- SimulateTraffic
\* sim.g is the goroutine that runs the simulator (0 before it is started),
\* sim.stopped says that stopChan has been closed, sim.tick that ticker.C
\* holds a tick, sim.names and sim.i are the locals users and i, and sim.late
\* records that the tick held or being served fired after stopChan was closed;
\* sim.drawn lists the usernames the batch under way has drawn so far.

\* rand.Intn(n): any of 0 .. n-1
RandIntn(n) == 0..(n - 1)

\* faulty variant: the span of the random offset is one too wide
SimulatorRatingsOffByOne == {MinRating + k : k \in RandIntn(MaxRating - MinRating + 2)}

\* newRating := MinRating + rand.Intn(MaxRating-MinRating+1)
SimulatorRatings == {MinRating + k : k \in RandIntn(MaxRating - MinRating + 1)}

\* faulty variant: the count is not lowered to the number of names
UpdateCountUncapped(names) == BatchSize

\* updateCount := 10; if len(users) < updateCount { updateCount = len(users) }
UpdateCount(names) ==
    IF Cardinality(names) < BatchSize THEN Cardinality(names) ELSE BatchSize

\* go lb.SimulateTraffic(stopChan): goroutine t enters the loop, its ticker created
GoSimulateTraffic(t) ==
    /\ pc[t] = "idle"
    /\ sim.g = 0
    /\ sim' = [sim EXCEPT !.g = t]
    /\ pc' = [pc EXCEPT ![t] = "sim_select"]
    /\ UNCHANGED <<engine, mu, op, locals, resp, ghost, boot, client>>

\* the ticker fires: ticker.C has room for one tick, which waits there until
\* the select receives it, so a tick that fires during a batch is taken as
\* firing when the loop is back at the select; a stopped ticker fires no more
Tick ==
    /\ sim.g # 0
    /\ pc[sim.g] = "sim_select"
    /\ ~sim.tick
    /\ sim' = [sim EXCEPT !.tick = TRUE, !.late = sim.stopped]
    /\ UNCHANGED <<engine, mu, pc, op, locals, resp, ghost, boot, client>>

\* the stop signal: stopChan is closed, once, by whoever owns it
CloseStop ==
    /\ ~sim.stopped
    /\ sim' = [sim EXCEPT !.stopped = TRUE]
    /\ UNCHANGED <<engine, mu, pc, op, locals, resp, ghost, boot, client>>

\* select, case <-stopChan: return (with the deferred ticker.Stop())
SimStop(t) ==
    /\ pc[t] = "sim_select"
    /\ sim.stopped
    /\ pc' = [pc EXCEPT ![t] = "sim_exit"]
    /\ UNCHANGED <<engine, mu, op, locals, resp, ghost, background>>

\* select, case <-ticker.C: when both channels are ready the select takes either
SimTick(t) ==
    /\ pc[t] = "sim_select"
    /\ sim.tick
    /\ sim' = [sim EXCEPT !.tick = FALSE]
    /\ pc' = [pc EXCEPT ![t] = "sim_rlock"]
    /\ UNCHANGED <<engine, mu, op, locals, resp, ghost, boot, client>>

\* lb.mu.RLock()
SimRLock(t) ==
    /\ pc[t] = "sim_rlock"
    /\ CanRLock(t)
    /\ mu' = RLocked(t)
    /\ snap' = [snap EXCEPT ![t] = serial]
    /\ pc' = [pc EXCEPT ![t] = "sim_scan"]
    /\ UNCHANGED <<engine, op, locals, resp, serial, background>>

\* if len(lb.users) == 0 { lb.mu.RUnlock(); continue }
SimEmpty(t) ==
    /\ pc[t] = "sim_scan"
    /\ DOMAIN users = {}
    /\ mu' = RUnlocked(t)
    /\ snap' = [snap EXCEPT ![t] = EmptyMap]
    /\ sim' = [sim EXCEPT !.late = FALSE]
    /\ pc' = [pc EXCEPT ![t] = "sim_select"]
    /\ UNCHANGED <<engine, op, locals, resp, serial, boot, client>>

\* faulty variant: the snapshot is taken but the read lock is not released
SimSnapshotHoldingLock(t) ==
    /\ pc[t] = "sim_scan"
    /\ DOMAIN users # {}
    /\ sim' = [sim EXCEPT !.names = DOMAIN users, !.i = 0]
    /\ snap' = [snap EXCEPT ![t] = EmptyMap]
    /\ pc' = [pc EXCEPT ![t] = "sim_batch"]
    /\ UNCHANGED <<engine, mu, op, locals, resp, serial, boot, client>>

\* for username := range lb.users { users = append(users, username) }; lb.mu.RUnlock()
\* (the slice is only indexed at random, so its order is not kept)
SimSnapshot(t) ==
    /\ pc[t] = "sim_scan"
    /\ DOMAIN users # {}
    /\ sim' = [sim EXCEPT !.names = DOMAIN users, !.i = 0]
    /\ mu' = RUnlocked(t)
    /\ snap' = [snap EXCEPT ![t] = EmptyMap]
    /\ pc' = [pc EXCEPT ![t] = "sim_batch"]
    /\ UNCHANGED <<engine, op, locals, resp, serial, boot, client>>

\* faulty variant: the index runs one past the snapshot, where a name that
\* is not a user's is found
SimUpdateFreshName(t) ==
    /\ pc[t] = "sim_batch"
    /\ sim.i < UpdateCount(sim.names)
    /\ \E username \in sim.names \cup {<<122>>}, newRating \in SimulatorRatings :
         /\ op' = [op EXCEPT ![t] =
                      [kind |-> "upsert", username |-> username, rating |-> newRating]]
         /\ sim' = [sim EXCEPT !.drawn = Append(@, username)]
         /\ pc' = [pc EXCEPT ![t] = "u_lock"]
         /\ resp' = resp
    /\ UNCHANGED <<engine, mu, locals, ghost, boot, client>>

\* loop body: username := users[rand.Intn(len(users))]; newRating := ...;
\* lb.AddOrUpdateUser(username, newRating), up to its rating check
SimUpdate(t) ==
    /\ pc[t] = "sim_batch"
    /\ sim.i < UpdateCount(sim.names)
    /\ \E username \in sim.names, newRating \in SimulatorRatings :
         /\ op' = [op EXCEPT ![t] =
                      [kind |-> "upsert", username |-> username, rating |-> newRating]]
         /\ sim' = [sim EXCEPT !.drawn = Append(@, username)]
         /\ IF InvalidRating(newRating)
            THEN /\ pc' = [pc EXCEPT ![t] = "done"]
                 /\ resp' = [resp EXCEPT ![t] = [kind |-> "error"]]
            ELSE /\ pc' = [pc EXCEPT ![t] = "u_lock"]
                 /\ resp' = resp
    /\ UNCHANGED <<engine, mu, locals, ghost, boot, client>>

\* AddOrUpdateUser has returned (its result is dropped); i++
SimAfterUpdate(t) ==
    /\ sim.g = t
    /\ pc[t] = "done"
    /\ sim' = [sim EXCEPT !.i = @ + 1]
    /\ pc' = [pc EXCEPT ![t] = "sim_batch"]
    /\ op' = [op EXCEPT ![t] = NoOp]
    /\ resp' = [resp EXCEPT ![t] = NoResp]
    /\ UNCHANGED <<engine, mu, locals, ghost, boot, client>>

\* i < updateCount fails: back to the select
SimBatchEnd(t) ==
    /\ pc[t] = "sim_batch"
    /\ sim.i >= UpdateCount(sim.names)
    /\ sim' = [sim EXCEPT !.names = {}, !.i = 0, !.late = FALSE, !.drawn = << >>]
    /\ pc' = [pc EXCEPT ![t] = "sim_select"]
    /\ UNCHANGED <<engine, mu, op, locals, resp, ghost, boot, client>>

\* ------------------------------------------------------------------- return

\* the caller takes the returned value; the goroutine is free for its next call
Return(t) ==
    /\ pc[t] = "done"
    /\ pc' = [pc EXCEPT ![t] = "idle"]
    /\ op' = [op EXCEPT ![t] = NoOp]
    /\ resp' = [resp EXCEPT ![t] = NoResp]
    /\ snap' = [snap EXCEPT ![t] = EmptyMap]
    /\ UNCHANGED <<background, engine, mu, locals, serial>>

\* ---------------------------------------------------------------------- main
\* boot.pos is the place of the main goroutine ("seed" up to ListenAndServe,
\* then "serving"), boot.i the seed loop's i. From the go statement on, the
\* main goroutine makes no more calls into the engine, and its slot among the
\* goroutines is the one the simulator runs in.

\* fmt.Sprintf("%d", n) for n >= 0: the decimal digits, most significant first
RECURSIVE FormatInt(_)
FormatInt(n) == IF n < 10 THEN <<48 + n>> ELSE FormatInt(n \div 10) \o <<48 + (n % 10)>>

\* fmt.Sprintf("user_%d", i)
SeedName(i) == <<117, 115, 101, 114, 95>> \o FormatInt(i)

\* rating := MinRating + rand.Intn(MaxRating-MinRating+1)
SeedRatings == {MinRating + k : k \in RandIntn(MaxRating - MinRating + 1)}

\* seed loop body: lb.AddOrUpdateUser(username, rating), up to its rating check
MainSeed(t) ==
    /\ boot.pos = "seed"
    /\ boot.i < SeedCount
    /\ sim.g = 0
    /\ \E rating \in SeedRatings : AddOrUpdateUser(t, SeedName(boot.i), rating)

\* AddOrUpdateUser has returned (its result is dropped); i++
MainSeedReturn(t) ==
    /\ boot.pos = "seed"
    /\ sim.g = 0
    /\ pc[t] = "done"
    /\ boot' = [boot EXCEPT !.i = @ + 1]
    /\ pc' = [pc EXCEPT ![t] = "idle"]
    /\ op' = [op EXCEPT ![t] = NoOp]
    /\ resp' = [resp EXCEPT ![t] = NoResp]
    /\ UNCHANGED <<engine, mu, locals, ghost, sim, client>>

\* i < 10000 fails; stopChan := make(chan struct{}); go lb.SimulateTraffic(stopChan)
MainGo(t) ==
    /\ boot.pos = "seed"
    /\ boot.i >= SeedCount
    /\ GoSimulateTraffic(t)

\* faulty variant: the server listens while the seed loop is still running
MainListenEarly ==
    /\ boot.pos = "seed"
    /\ boot' = [boot EXCEPT !.pos = "serving"]
    /\ UNCHANGED <<engine, mu, pc, op, locals, resp, ghost, sim, client>>

\* http.HandleFunc(...) for the endpoints, then http.ListenAndServe: requests
\* are served from here on
MainListen ==
    /\ boot.pos = "seed"
    /\ sim.g # 0
    /\ boot' = [boot EXCEPT !.pos = "serving"]
    /\ UNCHANGED <<engine, mu, pc, op, locals, resp, ghost, sim, client>>

\* the server accepts a request only once it listens
Serving == boot.pos = "serving"

\* -------------------------------------------------------------------- client
\* The React Native client. searchScreen and leaderboardScreen are the React
\* state of the two screens; phase is "new" before the screen is mounted,
\* "mounted" while it is shown and "closed" after it is unmounted.
\* runtime.timers holds the timers set and not yet run or cleared, as
\* [id, query, due]; runtime.pending the HTTP requests sent and not yet
\* answered. searchScreen.shown is history: the query whose answer is in
\* results, as a one-element sequence, or << >>.

\* String.prototype.trim: white space is removed at both ends
WhiteSpace == {9, 10, 11, 12, 13, 32}

RECURSIVE TrimStart(_)
TrimStart(s) == IF s # << >> /\ s[1] \in WhiteSpace THEN TrimStart(Tail(s)) ELSE s

RECURSIVE TrimEnd(_)
TrimEnd(s) ==
    IF s # << >> /\ s[Len(s)] \in WhiteSpace THEN TrimEnd(SubSeq(s, 1, Len(s) - 1)) ELSE s

Trim(s) == TrimEnd(TrimStart(s))

\* !query.trim()
Blank(query) == Trim(query) = << >>

\* encodeURIComponent on ASCII: letters, digits and - _ . ! ~ * ' ( ) are
\* kept, every other byte becomes %XX in upper-case hexadecimal
Unreserved ==
    (65..90) \cup (97..122) \cup (48..57) \cup {45, 95, 46, 33, 126, 42, 39, 40, 41}

HexDigit(n) == IF n < 10 THEN 48 + n ELSE 55 + n

RECURSIVE EncodeURIComponent(_)
EncodeURIComponent(s) ==
    IF s = << >> THEN << >>
    ELSE (IF s[1] \in Unreserved THEN <<s[1]>>
          ELSE <<37, HexDigit(s[1] \div 16), HexDigit(s[1] % 16)>>)
             \o EncodeURIComponent(Tail(s))

\* the value of a hexadecimal digit, -1 for any other byte
Unhex(c) ==
    IF c >= 48 /\ c <= 57 THEN c - 48
    ELSE IF c >= 65 /\ c <= 70 THEN c - 55
    ELSE IF c >= 97 /\ c <= 102 THEN c - 87
    ELSE 0 - 1

\* the server's reading of a query value (r.URL.Query()): %XX is the byte XX,
\* + is a space; a malformed escape is kept as it stands
RECURSIVE QueryUnescape(_)
QueryUnescape(s) ==
    IF s = << >> THEN << >>
    ELSE IF s[1] = 37 /\ Len(s) >= 3 /\ Unhex(s[2]) >= 0 /\ Unhex(s[3]) >= 0
    THEN <<16 * Unhex(s[2]) + Unhex(s[3])>> \o QueryUnescape(SubSeq(s, 4, Len(s)))
    ELSE IF s[1] = 43 THEN <<32>> \o QueryUnescape(Tail(s))
    ELSE <<s[1]>> \o QueryUnescape(Tail(s))

\* apiService.searchUsers: GET /search?username=<encodeURIComponent(query)>,
\* as the server receives it
SearchRequest(query) ==
    GetRequest({<<"username", QueryUnescape(EncodeURIComponent(query))>>})

\* apiService.getLeaderboard: GET /leaderboard?limit=<limit>
LeaderboardRequest(limit) == GetRequest({<<"limit", QueryUnescape(FormatInt(limit))>>})

RequestOf(r) ==
    IF r.kind = "search" THEN SearchRequest(r.query) ELSE LeaderboardRequest(r.limit)

\* goroutine t is serving the request r
Serves(t, r) == pc[t] # "idle" /\ "request" \in DOMAIN op[t] /\ op[t].request = RequestOf(r)

\* the goroutine that served a request is done with it
Finished(t) ==
    /\ pc' = [pc EXCEPT ![t] = "idle"]
    /\ op' = [op EXCEPT ![t] = NoOp]
    /\ resp' = [resp EXCEPT ![t] = NoResp]
    /\ snap' = [snap EXCEPT ![t] = EmptyMap]

\* the user opens the search screen
SearchScreenMount ==
    /\ searchScreen.phase = "new"
    /\ searchScreen' = [searchScreen EXCEPT !.phase = "mounted"]
    /\ UNCHANGED <<engine, mu, pc, op, locals, resp, ghost, sim, boot, leaderboardScreen,
                   runtime, clientLog>>

\* time passes
ClockTick ==
    /\ searchScreen.phase = "mounted"
    /\ runtime.now < MaxTime
    /\ runtime' = [runtime EXCEPT !.now = @ + 1]
    /\ UNCHANGED <<engine, mu, pc, op, locals, resp, ghost, sim, boot, searchScreen,
                   leaderboardScreen, clientLog>>

\* clearTimeout(id): the timer is dropped if it has not run yet
ClearTimeoutKeeping(timers, id) == timers

ClearTimeout(timers, id) == {tm \in timers : tm.id # id}

\* handleSearch(query), the text input's onChangeText: the pending timer is
\* cleared; a blank query empties the results, any other sets a new timer
SearchScreenHandleSearch(query) ==
    /\ searchScreen.phase = "mounted"
    /\ Len(clientLog.keys) < MaxKeys
    /\ LET cleared == ClearTimeout(runtime.timers, searchScreen.debounceTimer)
           id == Len(clientLog.keys) + 1
       IN IF Blank(query)
          THEN /\ searchScreen' = [searchScreen EXCEPT !.searchQuery = query,
                                     !.results = << >>, !.isLoading = FALSE,
                                     !.shown = << >>]
               /\ runtime' = [runtime EXCEPT !.timers = cleared]
               /\ clientLog' = [clientLog EXCEPT !.keys =
                                  Append(@, [at |-> runtime.now, query |-> query, timer |-> 0])]
          ELSE /\ searchScreen' = [searchScreen EXCEPT !.searchQuery = query,
                                     !.debounceTimer = id]
               /\ runtime' = [runtime EXCEPT !.timers =
                                cleared \cup {[id |-> id, query |-> query,
                                               due |-> runtime.now + Debounce]}]
               /\ clientLog' = [clientLog EXCEPT !.keys =
                                  Append(@, [at |-> runtime.now, query |-> query, timer |-> id])]
    /\ UNCHANGED <<engine, mu, pc, op, locals, resp, ghost, sim, boot, leaderboardScreen>>

\* the timer's callback, run once the delay has passed: setIsLoading(true) and
\* apiService.searchUsers(query), which sends no request for a blank query
DebounceFire(tm) ==
    /\ tm \in runtime.timers
    /\ runtime.now >= tm.due
    /\ IF Blank(tm.query)
       THEN /\ searchScreen' = [searchScreen EXCEPT !.results = << >>, !.isLoading = FALSE,
                                  !.shown = << >>]
            /\ runtime' = [runtime EXCEPT !.timers = @ \ {tm}]
            /\ clientLog' = clientLog
       ELSE /\ searchScreen' = [searchScreen EXCEPT !.isLoading = TRUE]
            /\ runtime' = [runtime EXCEPT !.timers = @ \ {tm},
                             !.pending = @ \cup {[kind |-> "search", id |-> tm.id,
                                                  query |-> tm.query]}]
            /\ clientLog' = [clientLog EXCEPT !.sent =
                               @ \cup {[at |-> runtime.now, timer |-> tm.id, query |-> tm.query,
                                        after |-> Len(clientLog.keys)]}]
    /\ UNCHANGED <<engine, mu, pc, op, locals, resp, ghost, sim, boot, leaderboardScreen>>

\* the server takes the request r: a goroutine runs its handler
Accept(t, r) ==
    /\ r \in runtime.pending
    /\ \A s \in Threads : ~Serves(s, r)
    /\ IF r.kind = "search"
       THEN HandleSearch(t, RequestOf(r))
       ELSE HandleLeaderboard(t, RequestOf(r))

\* the response to the search request r arrives: setResults(searchResults),
\* or setResults([]) when the server refused the request, and then
\* setIsLoading(false); a screen that is unmounted ignores the updates
SearchResponse(t, r) ==
    /\ r \in runtime.pending
    /\ r.kind = "search"
    /\ pc[t] = "done"
    /\ Serves(t, r)
    /\ searchScreen' =
         IF searchScreen.phase # "mounted" THEN searchScreen
         ELSE [searchScreen EXCEPT
                 !.results = IF resp[t].kind = "results" THEN resp[t].rows ELSE << >>,
                 !.isLoading = FALSE,
                 !.shown = <<r.query>>]
    /\ runtime' = [runtime EXCEPT !.pending = @ \ {r}]
    /\ Finished(t)
    /\ UNCHANGED <<engine, mu, locals, serial, sim, boot, leaderboardScreen, clientLog>>

\* the search request r fails (no connection, or the 10 s timeout): the catch
\* branch, setResults([]), then setIsLoading(false)
SearchFail(r) ==
    /\ r \in runtime.pending
    /\ r.kind = "search"
    /\ searchScreen' =
         IF searchScreen.phase # "mounted" THEN searchScreen
         ELSE [searchScreen EXCEPT !.results = << >>, !.isLoading = FALSE,
                                   !.shown = <<r.query>>]
    /\ runtime' = [runtime EXCEPT !.pending = @ \ {r}]
    /\ UNCHANGED <<engine, mu, pc, op, locals, resp, ghost, sim, boot, leaderboardScreen,
                   clientLog>>

\* the screen is unmounted: the effect's cleanup clears the pending timer
SearchScreenUnmount ==
    /\ searchScreen.phase = "mounted"
    /\ searchScreen' = [searchScreen EXCEPT !.phase = "closed"]
    /\ runtime' = [runtime EXCEPT !.timers = ClearTimeout(@, searchScreen.debounceTimer)]
    /\ UNCHANGED <<engine, mu, pc, op, locals, resp, ghost, sim, boot, leaderboardScreen,
                   clientLog>>

\* LeaderboardScreen is mounted: the effect loads the first page,
\* apiService.getLeaderboard(100)
LeaderboardScreenMount ==
    /\ leaderboardScreen.phase = "new"
    /\ leaderboardScreen' = [leaderboardScreen EXCEPT !.phase = "mounted", !.isLoading = TRUE]
    /\ runtime' = [runtime EXCEPT !.pending =
                     @ \cup {[kind |-> "load", limit |-> PageSize, page |-> 1]}]
    /\ UNCHANGED <<engine, mu, pc, op, locals, resp, ghost, sim, boot, searchScreen, clientLog>>

\* handleEndReached, the list's onEndReached: nothing while a load is under
\* way; otherwise setIsLoadingMore(true) and a request for 100 * (page + 1) rows
HandleEndReached ==
    /\ leaderboardScreen.phase = "mounted"
    /\ ~(leaderboardScreen.isLoadingMore \/ leaderboardScreen.isLoading)
    /\ leaderboardScreen.page < MaxPage
    /\ leaderboardScreen' = [leaderboardScreen EXCEPT !.isLoadingMore = TRUE]
    /\ runtime' = [runtime EXCEPT !.pending =
                     @ \cup {[kind |-> "more",
                              limit |-> PageSize * (leaderboardScreen.page + 1),
                              page |-> leaderboardScreen.page]}]
    /\ UNCHANGED <<engine, mu, pc, op, locals, resp, ghost, sim, boot, searchScreen, clientLog>>

\* the response to the leaderboard request r arrives: setData(result), and
\* setPage(1) after the first load, setPage(page + 1) after a load-more, with
\* the page of the render that made the call
LeaderboardResponse(t, r) ==
    /\ r \in runtime.pending
    /\ r.kind \in {"load", "more"}
    /\ pc[t] = "done"
    /\ Serves(t, r)
    /\ LET result == IF resp[t].kind = "rows" THEN resp[t].rows ELSE << >>
       IN leaderboardScreen' =
            IF r.kind = "load"
            THEN [leaderboardScreen EXCEPT !.data = result, !.page = 1, !.isLoading = FALSE]
            ELSE [leaderboardScreen EXCEPT !.data = result, !.page = r.page + 1,
                                           !.isLoadingMore = FALSE]
    /\ runtime' = [runtime EXCEPT !.pending = @ \ {r}]
    /\ Finished(t)
    /\ UNCHANGED <<engine, mu, locals, serial, sim, boot, searchScreen, clientLog>>

\* the leaderboard request r fails: the first load empties the list, a
\* load-more leaves list and page as they are
LeaderboardFail(r) ==
    /\ r \in runtime.pending
    /\ r.kind \in {"load", "more"}
    /\ leaderboardScreen' =
         IF r.kind = "load"
         THEN [leaderboardScreen EXCEPT !.data = << >>, !.isLoading = FALSE]
         ELSE [leaderboardScreen EXCEPT !.isLoadingMore = FALSE]
    /\ runtime' = [runtime EXCEPT !.pending = @ \ {r}]
    /\ UNCHANGED <<engine, mu, pc, op, locals, resp, ghost, sim, boot, searchScreen, clientLog>>

\* -------------------------------------------------------------- specifications
\* one step of one of the goroutines T, with inputs drawn from the given sets;
\* the goroutines R start the read operations
Step(T, R, names, ratings, queries, limits) ==
    \/ \E t \in T, username \in names, rating \in ratings :
         AddOrUpdateUser(t, username, rating)
    \/ \E t \in T : UpsertAnnounce(t)
    \/ \E t \in T : UpsertLock(t)
    \/ \E t \in T : UpsertDecrement(t)
    \/ \E t \in T : UpsertIncrement(t)
    \/ \E t \in T : UpsertStore(t)
    \/ \E t \in T : UpsertUnlock(t)
    \/ \E t \in R, query \in queries : SearchUsers(t, query)
    \/ \E t \in T : SearchRLock(t)
    \/ \E t \in T : SearchScan(t)
    \/ \E t \in T : SearchReturn(t)
    \/ \E t \in R, limit \in limits : GetTopLeaderboard(t, limit)
    \/ \E t \in T : TopRLock(t)
    \/ \E t \in T : TopScan(t)
    \/ \E t \in T : TopRUnlock(t)
    \/ \E t \in T : TopBuild(t)
    \/ \E t \in R : Stats(t)
    \/ \E t \in T : StatsRLock(t)
    \/ \E t \in T : StatsRead(t)
    \/ \E t \in T : Return(t)

\* concurrent callers; of the HTTP layer, the requests to /search that are
\* refused before the engine is called
Next ==
    \/ Step(Threads, Callers, Usernames, RatingInputs, Queries, Limits)
    \/ \E t \in Callers, request \in EmptySearchRequests : HandleSearch(t, request)

Spec == Init /\ [][Next]_vars

\* a single caller
NextSeq == Step(SeqThreads, SeqThreads, SeqUsernames, SeqRatingInputs, SeqQueries, SeqLimits)

SpecSeq == Init /\ [][NextSeq]_vars

\* the server with one goroutine: the seed loop's upserts, then requests
\* served one at a time
NextHttp ==
    \/ \E t \in SeqThreads, username \in SeqUsernames, rating \in RatingInputs :
         AddOrUpdateUser(t, username, rating)
    \/ \E t \in SeqThreads : UpsertAnnounce(t)
    \/ \E t \in SeqThreads : UpsertLock(t)
    \/ \E t \in SeqThreads : UpsertDecrement(t)
    \/ \E t \in SeqThreads : UpsertIncrement(t)
    \/ \E t \in SeqThreads : UpsertStore(t)
    \/ \E t \in SeqThreads : UpsertUnlock(t)
    \/ \E t \in SeqThreads, request \in SearchRequests : HandleSearch(t, request)
    \/ \E t \in SeqThreads : SearchRLock(t)
    \/ \E t \in SeqThreads : SearchScan(t)
    \/ \E t \in SeqThreads : SearchReturn(t)
    \/ \E t \in SeqThreads, request \in LeaderboardRequests : HandleLeaderboard(t, request)
    \/ \E t \in SeqThreads : TopRLock(t)
    \/ \E t \in SeqThreads : TopScan(t)
    \/ \E t \in SeqThreads : TopRUnlock(t)
    \/ \E t \in SeqThreads : TopBuild(t)
    \/ \E t \in SeqThreads, request \in StatsRequests : HandleStats(t, request)
    \/ \E t \in SeqThreads : StatsRLock(t)
    \/ \E t \in SeqThreads : StatsRead(t)
    \/ \E t \in SeqThreads : Return(t)

SpecHttp == Init /\ [][NextHttp]_vars

\* Inputs of the specification SpecKey: one goroutine calling the engine with
\* the usernames "" and "a"; queries "", "a"
KeyUsernames == {<< >>, <<97>>}
KeyQueries == {<< >>, <<97>>}
KeyLimits == 0..Cardinality(KeyUsernames)

NextKey == Step(SeqThreads, SeqThreads, KeyUsernames, RatingInputs, KeyQueries, KeyLimits)

SpecKey == Init /\ [][NextKey]_vars

\* Inputs of the client specifications: the goroutines that serve the
\* client's requests; the texts "", " ", "a", "a " typed into the search field
Servers == {1, 2}
ScreenQueries == {<< >>, <<32>>, <<97>>, <<97, 32>>}

\* the server goroutine t has a response that no request of the client waits for
Unclaimed(t) == \A r \in runtime.pending : ~Serves(t, r)

\* the search screen against the server: goroutine 1 fills the directory, then
\* the screen is opened and the user types
NextSearchScreen ==
    \/ \E t \in SeqThreads, username \in Usernames :
         searchScreen.phase = "new" /\ AddOrUpdateUser(t, username, MinRating)
    \/ \E t \in SeqThreads : UpsertAnnounce(t)
    \/ \E t \in SeqThreads : UpsertLock(t)
    \/ \E t \in SeqThreads : UpsertDecrement(t)
    \/ \E t \in SeqThreads : UpsertIncrement(t)
    \/ \E t \in SeqThreads : UpsertStore(t)
    \/ \E t \in SeqThreads : UpsertUnlock(t)
    \/ (\A t \in Threads : pc[t] = "idle") /\ SearchScreenMount
    \/ ClockTick
    \/ \E query \in ScreenQueries : SearchScreenHandleSearch(query)
    \/ \E tm \in runtime.timers : DebounceFire(tm)
    \/ \E t \in Servers, r \in runtime.pending : pc[t] = "idle" /\ Accept(t, r)
    \/ \E t \in Servers : SearchRLock(t)
    \/ \E t \in Servers : SearchScan(t)
    \/ \E t \in Servers : SearchReturn(t)
    \/ \E t \in Servers, r \in runtime.pending : SearchResponse(t, r)
    \/ \E r \in runtime.pending : SearchFail(r)
    \/ SearchScreenUnmount
    \/ \E t \in Servers : Unclaimed(t) /\ Return(t)

SpecSearchScreen == Init /\ [][NextSearchScreen]_vars

\* the leaderboard screen against the server: goroutine 1 fills the
\* directory, then the screen is opened and the user scrolls
NextLeaderboardScreen ==
    \/ \E t \in SeqThreads, username \in SeqUsernames :
         leaderboardScreen.phase = "new" /\ AddOrUpdateUser(t, username, MinRating)
    \/ \E t \in SeqThreads : UpsertAnnounce(t)
    \/ \E t \in SeqThreads : UpsertLock(t)
    \/ \E t \in SeqThreads : UpsertDecrement(t)
    \/ \E t \in SeqThreads : UpsertIncrement(t)
    \/ \E t \in SeqThreads : UpsertStore(t)
    \/ \E t \in SeqThreads : UpsertUnlock(t)
    \/ (\A t \in Threads : pc[t] = "idle") /\ LeaderboardScreenMount
    \/ HandleEndReached
    \/ \E t \in Servers, r \in runtime.pending : pc[t] = "idle" /\ Accept(t, r)
    \/ \E t \in Servers : TopRLock(t)
    \/ \E t \in Servers : TopScan(t)
    \/ \E t \in Servers : TopRUnlock(t)
    \/ \E t \in Servers : TopBuild(t)
    \/ \E t \in Servers, r \in runtime.pending : LeaderboardResponse(t, r)
    \/ \E r \in runtime.pending : LeaderboardFail(r)
    \/ \E t \in Servers : Unclaimed(t) /\ Return(t)

SpecLeaderboardScreen == Init /\ [][NextLeaderboardScreen]_vars

\* Inputs of the simulator specification SpecSim: query "A", limit 1, and the
\* goroutine that runs the queries
SimQueries == {<<65>>}
SimLimits == {1}
SimCallers == {2}

\* the engine with the simulator: goroutine 1 upserts (as the seed loop does),
\* then runs SimulateTraffic; the other goroutines run the shipped queries
NextSim ==
    \/ \E t \in SeqThreads, username \in Usernames, rating \in {MinRating, MaxRating} :
         AddOrUpdateUser(t, username, rating)
    \/ \E t \in Threads : UpsertAnnounce(t)
    \/ \E t \in Threads : UpsertLock(t)
    \/ \E t \in Threads : UpsertDecrement(t)
    \/ \E t \in Threads : UpsertIncrement(t)
    \/ \E t \in Threads : UpsertStore(t)
    \/ \E t \in Threads : UpsertUnlock(t)
    \/ \E t \in SeqThreads : GoSimulateTraffic(t)
    \/ Tick
    \/ CloseStop
    \/ \E t \in SeqThreads : SimStop(t)
    \/ \E t \in SeqThreads : SimTick(t)
    \/ \E t \in SeqThreads : SimRLock(t)
    \/ \E t \in SeqThreads : SimEmpty(t)
    \/ \E t \in SeqThreads : SimSnapshot(t)
    \/ \E t \in SeqThreads : SimUpdate(t)
    \/ \E t \in SeqThreads : SimAfterUpdate(t)
    \/ \E t \in SeqThreads : SimBatchEnd(t)
    \/ \E t \in SimCallers, query \in SimQueries : SearchUsers(t, query)
    \/ \E t \in SimCallers : SearchRLock(t)
    \/ \E t \in SimCallers : SearchScan(t)
    \/ \E t \in SimCallers : SearchReturn(t)
    \/ \E t \in SimCallers, limit \in SimLimits : GetTopLeaderboard(t, limit)
    \/ \E t \in SimCallers : TopRLock(t)
    \/ \E t \in SimCallers : TopScan(t)
    \/ \E t \in SimCallers : TopRUnlock(t)
    \/ \E t \in SimCallers : TopBuild(t)
    \/ \E t \in SimCallers : Stats(t)
    \/ \E t \in SimCallers : StatsRLock(t)
    \/ \E t \in SimCallers : StatsRead(t)
    \/ \E t \in Threads : sim.g # t /\ Return(t)

SpecSim == Init /\ [][NextSim]_vars

\* Inputs of the program's specification SpecMain: the query "U", and one
\* request for each endpoint
MainSearchRequests == {GetRequest({<<"username", <<85>>>>})}
MainLeaderboardRequests == {GetRequest({<<"limit", <<49>>>>})}

\* the program as main runs it: the seed loop, then the simulator beside the
\* HTTP server. The directory is not empty once seeded, so the simulator's
\* early exit is not taken, and main never closes stopChan.
NextMain ==
    \/ \E t \in SeqThreads : MainSeed(t)
    \/ \E t \in SeqThreads : MainSeedReturn(t)
    \/ \E t \in SeqThreads : MainGo(t)
    \/ MainListen
    \/ \E t \in SeqThreads : UpsertAnnounce(t)
    \/ \E t \in SeqThreads : UpsertLock(t)
    \/ \E t \in SeqThreads : UpsertDecrement(t)
    \/ \E t \in SeqThreads : UpsertIncrement(t)
    \/ \E t \in SeqThreads : UpsertStore(t)
    \/ \E t \in SeqThreads : UpsertUnlock(t)
    \/ Tick
    \/ \E t \in SeqThreads : SimTick(t)
    \/ \E t \in SeqThreads : SimRLock(t)
    \/ \E t \in SeqThreads : SimSnapshot(t)
    \/ \E t \in SeqThreads : SimUpdate(t)
    \/ \E t \in SeqThreads : SimAfterUpdate(t)
    \/ \E t \in SeqThreads : SimBatchEnd(t)
    \/ \E t \in SimCallers, request \in MainSearchRequests :
         Serving /\ HandleSearch(t, request)
    \/ \E t \in SimCallers : SearchRLock(t)
    \/ \E t \in SimCallers : SearchScan(t)
    \/ \E t \in SimCallers : SearchReturn(t)
    \/ \E t \in SimCallers, request \in MainLeaderboardRequests :
         Serving /\ HandleLeaderboard(t, request)
    \/ \E t \in SimCallers : TopRLock(t)
    \/ \E t \in SimCallers : TopScan(t)
    \/ \E t \in SimCallers : TopRUnlock(t)
    \/ \E t \in SimCallers : TopBuild(t)
    \/ \E t \in SimCallers, request \in StatsRequests : Serving /\ HandleStats(t, request)
    \/ \E t \in SimCallers : StatsRLock(t)
    \/ \E t \in SimCallers : StatsRead(t)
    \/ \E t \in SimCallers : Return(t)

SpecMain == Init /\ [][NextMain]_vars

\* Inputs of the fair specification SpecFair: one username, two ratings
FairUsernames == {<<97>>}
FairRatings == {MinRating, MaxRating}

\* writers and readers contending for lb.mu: every goroutine upserts, the
\* callers also read the directory size under the shared lock
NextFair ==
    \/ \E t \in Threads, username \in FairUsernames, rating \in FairRatings :
         AddOrUpdateUser(t, username, rating)
    \/ \E t \in Threads : UpsertAnnounce(t)
    \/ \E t \in Threads : UpsertLock(t)
    \/ \E t \in Threads : UpsertDecrement(t)
    \/ \E t \in Threads : UpsertIncrement(t)
    \/ \E t \in Threads : UpsertStore(t)
    \/ \E t \in Threads : UpsertUnlock(t)
    \/ \E t \in Callers : Stats(t)
    \/ \E t \in Callers : StatsRLock(t)
    \/ \E t \in Callers : StatsRead(t)
    \/ \E t \in Threads : Return(t)

\* What the scheduler and sync.RWMutex guarantee: a goroutine that can run
\* its next step inside a critical section runs it, so readers leave and the
\* writer that has the lock finishes (weak fairness); a writer queued on the
\* writers' mutex of Lock gets it after finitely many hand-overs (sync.Mutex
\* hands the lock to a waiter that has starved: strong fairness). Nothing is
\* assumed of the calls, which may keep arriving or stop.
Fairness ==
    \A t \in Threads :
      /\ SF_vars(UpsertAnnounce(t))
      /\ WF_vars(UpsertLock(t))
      /\ WF_vars(UpsertDecrement(t))
      /\ WF_vars(UpsertIncrement(t))
      /\ WF_vars(UpsertStore(t))
      /\ WF_vars(UpsertUnlock(t))
      /\ WF_vars(StatsRead(t))

SpecFair == Init /\ [][NextFair]_vars /\ Fairness

\* The simulator under a fair scheduler: every goroutine that can take its
\* next step takes it (weak fairness), and the select, which picks among its
\* ready cases at random, does not pass over the closed stopChan for ever
\* (strong fairness of the stop case).
SimFairness ==
    \A t \in Threads :
      /\ WF_vars(UpsertAnnounce(t))
      /\ WF_vars(UpsertLock(t))
      /\ WF_vars(UpsertDecrement(t))
      /\ WF_vars(UpsertIncrement(t))
      /\ WF_vars(UpsertStore(t))
      /\ WF_vars(UpsertUnlock(t))
      /\ WF_vars(SearchScan(t))
      /\ WF_vars(SearchReturn(t))
      /\ WF_vars(TopScan(t))
      /\ WF_vars(TopRUnlock(t))
      /\ WF_vars(StatsRead(t))
      /\ WF_vars(SimRLock(t) \/ SimEmpty(t) \/ SimSnapshot(t) \/ SimUpdate(t)
                    \/ SimAfterUpdate(t) \/ SimBatchEnd(t))
      /\ SF_vars(SimStop(t))

SpecSimFair == SpecSim /\ SimFairness

\* Inputs of the specification SpecGet: the two goroutines that call
\* GetLeaderboard, the usernames "a" and "b", the ratings and the limits
GetCallers == {1, 2}
GetUsernames == {<<97>>, <<98>>}
GetRatings == {MinRating, MaxRating}
GetLimits == {1, 2}

\* GetLeaderboard called by two goroutines that also upsert and read the
\* directory size
NextGet ==
    \/ \E t \in GetCallers, username \in GetUsernames, rating \in GetRatings :
         AddOrUpdateUser(t, username, rating)
    \/ \E t \in GetCallers : UpsertAnnounce(t)
    \/ \E t \in GetCallers : UpsertLock(t)
    \/ \E t \in GetCallers : UpsertDecrement(t)
    \/ \E t \in GetCallers : UpsertIncrement(t)
    \/ \E t \in GetCallers : UpsertStore(t)
    \/ \E t \in GetCallers : UpsertUnlock(t)
    \/ \E t \in GetCallers, limit \in GetLimits : GetLeaderboard(t, limit)
    \/ \E t \in GetCallers : GetLeaderboardRLock(t)
    \/ \E t \in GetCallers : GetLeaderboardBucket(t)
    \/ \E t \in GetCallers : GetLeaderboardFind(t)
    \/ \E t \in GetCallers : GetLeaderboardRestore(t)
    \/ \E t \in GetCallers : GetLeaderboardReturn(t)
    \/ ConcurrentMapFatal
    \/ \E t \in GetCallers : Stats(t)
    \/ \E t \in GetCallers : StatsRLock(t)
    \/ \E t \in GetCallers : StatsRead(t)
    \/ \E t \in GetCallers : Return(t)

SpecGet == Init /\ [][NextGet]_vars

\* Inputs of the specification SpecTick: the usernames "a", "b", "c"
TickUsernames == {<<97>>, <<98>>, <<99>>}

\* the simulator alone: goroutine 1 stores up to three users at MinRating,
\* then runs SimulateTraffic with nobody else calling the engine
NextTick ==
    \/ \E t \in SeqThreads, username \in TickUsernames : AddOrUpdateUser(t, username, MinRating)
    \/ \E t \in SeqThreads : UpsertAnnounce(t)
    \/ \E t \in SeqThreads : UpsertLock(t)
    \/ \E t \in SeqThreads : UpsertDecrement(t)
    \/ \E t \in SeqThreads : UpsertIncrement(t)
    \/ \E t \in SeqThreads : UpsertStore(t)
    \/ \E t \in SeqThreads : UpsertUnlock(t)
    \/ \E t \in SeqThreads : GoSimulateTraffic(t)
    \/ Tick
    \/ \E t \in SeqThreads : SimTick(t)
    \/ \E t \in SeqThreads : SimRLock(t)
    \/ \E t \in SeqThreads : SimEmpty(t)
    \/ \E t \in SeqThreads : SimSnapshot(t)
    \/ \E t \in SeqThreads : SimUpdate(t)
    \/ \E t \in SeqThreads : SimAfterUpdate(t)
    \/ \E t \in SeqThreads : SimBatchEnd(t)
    \/ \E t \in SeqThreads : sim.g # t /\ Return(t)

SpecTick == Init /\ [][NextTick]_vars

\* the simulator beside a writer: goroutine 1 stores users at MinRating and
\* then runs SimulateTraffic, while the callers keep storing users at MaxRating
NextStale ==
    \/ \E t \in SeqThreads, username \in Usernames : AddOrUpdateUser(t, username, MinRating)
    \/ \E t \in SimCallers, username \in Usernames : AddOrUpdateUser(t, username, MaxRating)
    \/ \E t \in Threads : UpsertAnnounce(t)
    \/ \E t \in Threads : UpsertLock(t)
    \/ \E t \in Threads : UpsertDecrement(t)
    \/ \E t \in Threads : UpsertIncrement(t)
    \/ \E t \in Threads : UpsertStore(t)
    \/ \E t \in Threads : UpsertUnlock(t)
    \/ \E t \in SeqThreads : GoSimulateTraffic(t)
    \/ Tick
    \/ \E t \in SeqThreads : SimTick(t)
    \/ \E t \in SeqThreads : SimRLock(t)
    \/ \E t \in SeqThreads : SimEmpty(t)
    \/ \E t \in SeqThreads : SimSnapshot(t)
    \/ \E t \in SeqThreads : SimUpdate(t)
    \/ \E t \in SeqThreads : SimAfterUpdate(t)
    \/ \E t \in SeqThreads : SimBatchEnd(t)
    \/ \E t \in Threads : sim.g # t /\ Return(t)

SpecStale == Init /\ [][NextStale]_vars

\* Inputs of the fair specification SpecLive: the username "Ab", stored at
\* MinRating, the query "A" and the limit 1
LiveUsernames == {<<65, 98>>}

\* handlers, simulator and upserts together: goroutine 1 stores users and
\* then runs SimulateTraffic, the other runs the queries
NextLive ==
    \/ \E t \in SeqThreads, username \in LiveUsernames : AddOrUpdateUser(t, username, MinRating)
    \/ \E t \in SeqThreads : UpsertAnnounce(t)
    \/ \E t \in SeqThreads : UpsertLock(t)
    \/ \E t \in SeqThreads : UpsertDecrement(t)
    \/ \E t \in SeqThreads : UpsertIncrement(t)
    \/ \E t \in SeqThreads : UpsertStore(t)
    \/ \E t \in SeqThreads : UpsertUnlock(t)
    \/ \E t \in SeqThreads : GoSimulateTraffic(t)
    \/ Tick
    \/ \E t \in SeqThreads : SimTick(t)
    \/ \E t \in SeqThreads : SimRLock(t)
    \/ \E t \in SeqThreads : SimEmpty(t)
    \/ \E t \in SeqThreads : SimSnapshot(t)
    \/ \E t \in SeqThreads : SimUpdate(t)
    \/ \E t \in SeqThreads : SimAfterUpdate(t)
    \/ \E t \in SeqThreads : SimBatchEnd(t)
    \/ \E t \in SimCallers, query \in SimQueries : SearchUsers(t, query)
    \/ \E t \in SimCallers : SearchRLock(t)
    \/ \E t \in SimCallers : SearchScan(t)
    \/ \E t \in SimCallers : SearchReturn(t)
    \/ \E t \in SimCallers, limit \in SimLimits : GetTopLeaderboard(t, limit)
    \/ \E t \in SimCallers : TopRLock(t)
    \/ \E t \in SimCallers : TopScan(t)
    \/ \E t \in SimCallers : TopRUnlock(t)
    \/ \E t \in SimCallers : TopBuild(t)
    \/ \E t \in SimCallers : Stats(t)
    \/ \E t \in SimCallers : StatsRLock(t)
    \/ \E t \in SimCallers : StatsRead(t)
    \/ \E t \in Threads : sim.g # t /\ Return(t)

\* What the scheduler and sync.RWMutex guarantee: a goroutine whose next step
\* does not wait for the lock takes it (weak fairness); a goroutine waiting
\* in RLock or Lock gets the lock after finitely many hand-overs, since a
\* writer that unlocks lets in the readers that were waiting and a writer
\* queued on the writers' mutex is served (strong fairness). Nothing is
\* assumed of the arrival of calls or ticks.
LiveFairness ==
    \A t \in Threads :
      /\ SF_vars(SearchRLock(t) \/ TopRLock(t) \/ StatsRLock(t) \/ SimRLock(t)
                    \/ UpsertAnnounce(t))
      /\ WF_vars(UpsertLock(t) \/ UpsertDecrement(t) \/ UpsertIncrement(t)
                    \/ UpsertStore(t) \/ UpsertUnlock(t))
      /\ WF_vars(SearchScan(t) \/ SearchReturn(t) \/ TopScan(t) \/ TopRUnlock(t)
                    \/ TopBuild(t) \/ StatsRead(t))
      /\ WF_vars(SimEmpty(t) \/ SimSnapshot(t))

SpecLive == Init /\ [][NextLive]_vars /\ LiveFairness

\* ======================================================================
\* Properties
\* ======================================================================

\* a goroutine is inside the write critical section of AddOrUpdateUser
WriterInCS(t) == pc[t] \in {"u_dec", "u_inc", "u_store", "u_unlock"}

\* a goroutine is inside a read critical section
ReaderInCS(t) == pc[t] \in {"s_scan", "t_scan", "st_read", "sim_scan"}

Quiescent == \A t \in Threads : ~WriterInCS(t)

RECURSIVE SumCells(_, _)
SumCells(lo, hi) == IF lo > hi THEN 0 ELSE scoreBuckets[lo] + SumCells(lo + 1, hi)

\* the sum of scoreBuckets[r] over r in [MinRating, MaxRating]
SumBuckets == SumCells(MinRating, MaxRating)

DirectorySize == Cardinality(DOMAIN users)

UsersAt(r) == {u \in DOMAIN users : users[u].Rating = r}

\* C1: whenever no AddOrUpdateUser call is inside its write critical section,
\* the sum of the bucket cells over [MinRating, MaxRating] equals the number of
\* entries of the users directory.
C1_GlobalInvariant == Quiescent => SumBuckets = DirectorySize

\* C1 witness: a quiescent state with two users, one of which was upserted
\* again after its creation (more commits than users would leave the sum wrong
\* if the old cell were not decremented); here both sit in one cell.
C1_Witness ==
    /\ Quiescent
    /\ DirectorySize = 2
    /\ scoreBuckets[MaxRating] = 2
    /\ \E t \in Threads : pc[t] = "done" /\ resp[t].kind = "ok"

\* C2: whenever no writer is inside its critical section, every cell
\* scoreBuckets[r] equals the number of users whose current rating is r.
C2_SecondaryInvariant ==
    Quiescent => \A r \in 0..(BucketSize - 1) : scoreBuckets[r] = Cardinality(UsersAt(r))

\* C2 witness: a quiescent state with one user in each of two cells.
C2_Witness ==
    /\ Quiescent
    /\ Cardinality(UsersAt(MinRating)) = 1
    /\ Cardinality(UsersAt(MaxRating)) = 1
    /\ scoreBuckets[MinRating] = 1

Min(a, b) == IF a < b THEN a ELSE b

\* byte order on strings: a is a proper prefix of b, or the first differing byte is smaller
ByteLess(a, b) ==
    \E k \in 1..(Len(a) + 1) :
        /\ \A i \in 1..(k - 1) : i <= Len(b) /\ a[i] = b[i]
        /\ IF k > Len(a) THEN k <= Len(b) ELSE (k <= Len(b) /\ a[k] < b[k])

\* dense competition rank of rating r in d
SnapRank(d, r) == 1 + Cardinality({u \in DOMAIN d : d[u] > r})

\* u comes before v on the leaderboard of d
Before(d, u, v) == d[u] > d[v] \/ (d[u] = d[v] /\ ByteLess(u, v))

Position(d, u) == 1 + Cardinality({v \in DOMAIN d : Before(d, v, u)})

\* the leaderboard of d cut at limit
ExpectedTop(d, limit) ==
    LET k == IF limit < 0 THEN 0 ELSE Min(limit, Cardinality(DOMAIN d))
    IN [i \in 1..k |->
           LET u == CHOOSE u \in DOMAIN d : Position(d, u) = i
           IN [Rank |-> SnapRank(d, d[u]), Username |-> u, Rating |-> d[u]]]

SearchRow(d, u) == [Username |-> u, Rating |-> d[u], GlobalRank |-> SnapRank(d, d[u])]

\* the possible answers to a search of d: the matches, each once, by rating
\* descending in any order among equal ratings, cut at SearchLimit
ExpectedSearch(d, query) ==
    LET m == {u \in DOMAIN d : HasPrefix(ToLower(u), ToLower(query))}
        n == Cardinality(m)
        full == {s \in [1..n -> {SearchRow(d, u) : u \in m}] :
                    /\ \A i, j \in 1..n : i # j => s[i] # s[j]
                    /\ \A i, j \in 1..n : i < j => s[i].Rating >= s[j].Rating}
    IN {SubSeq(s, 1, Min(n, SearchLimit)) : s \in full}

\* the directory as username -> rating
Ratingof(m) == [u \in DOMAIN m |-> m[u].Rating]

Answered(t) == pc[t] = "done"

\* C4: every response equals the result of its query on one state produced by
\* the Upserts committed so far in their commit order (the state serial had
\* when the reader took the read lock): a search answers with a possible
\* search result of that state, a leaderboard with the leaderboard of that
\* state, stats with its size; and serial is the directory whenever no writer
\* is inside its critical section.
C4_SerializableResponses ==
    /\ Quiescent => serial = Ratingof(users)
    /\ \A t \in Threads :
         Answered(t) =>
            /\ (op[t].kind = "search" /\ op[t].query # << >>) =>
                   resp[t].rows \in ExpectedSearch(snap[t], op[t].query)
            /\ op[t].kind = "top" => resp[t].rows = ExpectedTop(snap[t], op[t].limit)
            /\ op[t].kind = "stats" => resp[t].total_users = Cardinality(DOMAIN snap[t])

\* C4 witness: a search has answered with two rows of a state that an Upsert
\* committed since has replaced.
C4_Witness ==
    \E t \in Threads :
        /\ Answered(t)
        /\ op[t].kind = "search"
        /\ Len(resp[t].rows) = 2
        /\ snap[t] # serial
        /\ \E w \in Threads : WriterInCS(w)

\* C5: a call of AddOrUpdateUser with a rating below MinRating or above
\* MaxRating returns the error in that same step and changes neither the
\* directory nor any bucket cell nor the lock, whether or not the username
\* exists; and no call with such a rating is ever at the lock or inside the
\* critical section.
C5_InvalidRatingRejected ==
    [][\A t \in Threads :
         (pc[t] = "idle" /\ pc'[t] # "idle" /\ op'[t].kind = "upsert"
            /\ (op'[t].rating < MinRating \/ op'[t].rating > MaxRating))
         => /\ pc'[t] = "done"
            /\ resp'[t].kind = "error"
            /\ users' = users
            /\ scoreBuckets' = scoreBuckets
            /\ mu' = mu]_vars

\* C5 witness: the error was returned for an existing username with rating
\* MinRating - 1 while the other goroutine holds the exclusive lock.
C5_Witness ==
    \E t, w \in Threads :
        /\ Answered(t)
        /\ resp[t].kind = "error"
        /\ op[t].rating = MinRating - 1
        /\ op[t].username \in DOMAIN users
        /\ WriterInCS(w)

\* C5 witness, upper end: the error was returned for rating MaxRating + 1.
C5_WitnessAbove ==
    \E t \in Threads :
        Answered(t) /\ resp[t].kind = "error" /\ op[t].rating = MaxRating + 1

\* C6: in every quiescent state and for every rating r in [MinRating, MaxRating],
\* CalculateRank(r) is 1 plus the number of users rated strictly above r.
C6_RankCountsHigher ==
    Quiescent =>
        \A r \in Ratings :
            CalculateRank(r) = 1 + Cardinality({u \in DOMAIN users : users[u].Rating > r})

\* C6 witness: two users at MaxRating, one just below, one at MinRating: the
\* ranks are 1, 3 and 4.
C6_Witness ==
    /\ Quiescent
    /\ Cardinality(UsersAt(MaxRating)) = 2
    /\ Cardinality(UsersAt(MaxRating - 1)) = 1
    /\ Cardinality(UsersAt(MinRating)) = 1
    /\ CalculateRank(MaxRating) = 1
    /\ CalculateRank(MaxRating - 1) = 3
    /\ CalculateRank(MinRating) = 4

RowAgrees(d, row) ==
    /\ row.Username \in DOMAIN d
    /\ row.Rating = d[row.Username]
    /\ row.GlobalRank = SnapRank(d, row.Rating)

\* C7: while SearchUsers scans, the committed state is the one it locked (no
\* Upsert takes effect during the scan), and every row it has collected, and
\* every row it returns, carries the rating of its user and the rank of that
\* rating in that one state.
C7_SearchRanksFromOneState ==
    \A t \in Threads :
        /\ pc[t] = "s_scan" =>
              /\ snap[t] = serial
              /\ \A i \in 1..Len(matches[t]) : RowAgrees(snap[t], matches[t][i])
        /\ (Answered(t) /\ op[t].kind = "search") =>
              \A i \in 1..Len(resp[t].rows) : RowAgrees(snap[t], resp[t].rows[i])

\* C7 witness: SearchUsers holds one row and has a second user still to scan
\* while a writer has announced itself and waits for the lock.
C7_Witness ==
    \E t, w \in Threads :
        /\ pc[t] = "s_scan"
        /\ Len(matches[t]) = 1
        /\ DOMAIN users \ visited[t] # {}
        /\ pc[w] = "u_wait"
        /\ mu.writer = w

\* C8: the rows GetTopLeaderboard returns are the leaderboard of the one state
\* committed when it held the read lock, whatever was committed between its
\* RUnlock and the building of the rows.
C8_TopFromOneState ==
    \A t \in Threads :
        /\ pc[t] = "t_scan" => snap[t] = serial
        /\ pc[t] = "t_build" =>
              BuildLeaderboard(usersByRating[t], op[t].limit) = ExpectedTop(snap[t], op[t].limit)
        /\ (Answered(t) /\ op[t].kind = "top") =>
              resp[t].rows = ExpectedTop(snap[t], op[t].limit)

\* C8 witness: GetTopLeaderboard has released the lock and not yet built its
\* rows, an Upsert has since committed and changed the directory, and the rows
\* it is about to build are two rows of ranks 1 and 2 of the state it locked.
C8_Witness ==
    \E t \in Threads :
        /\ pc[t] = "t_build"
        /\ Quiescent
        /\ Ratingof(users) # snap[t]
        /\ Len(BuildLeaderboard(usersByRating[t], op[t].limit)) = 2
        /\ BuildLeaderboard(usersByRating[t], op[t].limit)[2].Rank = 2

GroupSize(d, r) == Cardinality({u \in DOMAIN d : d[u] = r})

C10_WitnessCase ==
    \E t \in Threads :
        /\ Answered(t)
        /\ op[t].kind = "top"
        /\ Len(resp[t].rows) = 2
        /\ resp[t].rows[1].Username = <<66>>
        /\ resp[t].rows[2].Username = <<97>>
        /\ resp[t].rows[2].Rating = resp[t].rows[1].Rating

\* C11: for a limit of at least 1, GetTopLeaderboard returns exactly
\* min(limit, |D|) rows, their usernames are pairwise distinct, and each row is
\* a user of the directory with the rating the directory holds for it; with
\* limit = |D| every user of the directory is returned.
C11_TopRowCount ==
    \A t \in Threads :
        (Answered(t) /\ op[t].kind = "top" /\ op[t].limit >= 1) =>
            LET rows == resp[t].rows
                d == snap[t]
            IN /\ Len(rows) = Min(op[t].limit, Cardinality(DOMAIN d))
               /\ \A i, j \in 1..Len(rows) : i # j => rows[i].Username # rows[j].Username
               /\ \A i \in 1..Len(rows) :
                     rows[i].Username \in DOMAIN d /\ rows[i].Rating = d[rows[i].Username]
               /\ Ratingof(users) = d =>
                     \A i \in 1..Len(rows) : rows[i].Rating = users[rows[i].Username].Rating
               /\ op[t].limit = Cardinality(DOMAIN d) =>
                     {rows[i].Username : i \in 1..Len(rows)} = DOMAIN d

\* C11 witness: the directory holds four users, three of them at one rating,
\* and the limit 3 cuts inside that rating group: three rows come back.
C11_Witness ==
    \E t \in Threads :
        /\ Answered(t)
        /\ op[t].kind = "top"
        /\ op[t].limit = 3
        /\ Cardinality(DOMAIN users) = 4
        /\ Cardinality(UsersAt(MinRating)) = 3
        /\ Len(resp[t].rows) = 3

\* C11 witness, limit = |D|: all four users are returned.
C11_WitnessAll ==
    \E t \in Threads :
        /\ Answered(t)
        /\ op[t].kind = "top"
        /\ op[t].limit = 4
        /\ Cardinality(DOMAIN users) = 4
        /\ {resp[t].rows[i].Username : i \in 1..Len(resp[t].rows)} = DOMAIN users

\* C12: the rows SearchUsers returns are ordered by rating descending and,
\* among rows of equal rating, by username ascending, so that the sequence is
\* determined by the query and the state.
C12_SearchOrderedByUsername ==
    \A t \in Threads :
        (Answered(t) /\ op[t].kind = "search") =>
            LET rows == resp[t].rows
            IN \A i \in 1..(Len(rows) - 1) :
                  \/ rows[i].Rating > rows[i + 1].Rating
                  \/ /\ rows[i].Rating = rows[i + 1].Rating
                     /\ ByteLess(rows[i].Username, rows[i + 1].Username)

\* two bytes are the same letter up to ASCII case
SameLetter(a, b) ==
    \/ a = b
    \/ a \in 65..90 /\ b = a + 32
    \/ b \in 65..90 /\ a = b + 32

\* username u starts with query q, case-insensitively
MatchesQuery(u, q) ==
    Len(q) <= Len(u) /\ \A i \in 1..Len(q) : SameLetter(u[i], q[i])

\* C13: for a non-empty query, SearchUsers returns only users of the directory
\* whose lowercased username starts with the lowercased query, each at most
\* once; all of them when there are at most SearchLimit; otherwise exactly
\* SearchLimit of them, and no omitted match has a rating strictly higher than
\* a returned one.
C13_SearchPrefixAndCut ==
    \A t \in Threads :
        (Answered(t) /\ op[t].kind = "search" /\ op[t].query # << >>) =>
            LET rows == resp[t].rows
                d == snap[t]
                m == {u \in DOMAIN d : MatchesQuery(u, op[t].query)}
                returned == {rows[i].Username : i \in 1..Len(rows)}
            IN /\ returned \subseteq m
               /\ \A i, j \in 1..Len(rows) : i # j => rows[i].Username # rows[j].Username
               /\ Cardinality(m) <= SearchLimit => returned = m
               /\ Cardinality(m) > SearchLimit =>
                     /\ Len(rows) = SearchLimit
                     /\ \A u \in m \ returned : \A i \in 1..Len(rows) : d[u] <= rows[i].Rating

\* C13 witness: the query "A" matches "a", "Ab" and "ab" but not "B"; the two
\* rows returned are rated above the omitted match.
C13_Witness ==
    \E t \in Threads :
        /\ Answered(t)
        /\ op[t].kind = "search"
        /\ op[t].query = <<65>>
        /\ DOMAIN snap[t] = SeqUsernames
        /\ Len(resp[t].rows) = SearchLimit
        /\ \E u \in {<<97>>, <<65, 98>>, <<97, 98>>} :
              /\ \A i \in 1..Len(resp[t].rows) : resp[t].rows[i].Username # u
              /\ \A i \in 1..Len(resp[t].rows) : resp[t].rows[i].Rating > snap[t][u]

\* C13 witness, no cut: the query "AB" returns both "Ab" and "ab".
C13_WitnessAll ==
    \E t \in Threads :
        /\ Answered(t)
        /\ op[t].kind = "search"
        /\ op[t].query = <<65, 66>>
        /\ DOMAIN snap[t] = SeqUsernames
        /\ {resp[t].rows[i].Username : i \in 1..Len(resp[t].rows)} = {<<65, 98>>, <<97, 98>>}

\* the engine state as one value
EngineState == [users |-> users, scoreBuckets |-> scoreBuckets]

\* C14: AddOrUpdateUser(u, r) applied twice in succession leaves the directory
\* and the bucket array that one application leaves: from every quiescent state
\* and for every username and rating, valid or not; and the state a call has
\* produced, before it unlocks, is left unchanged by the same call again.
C14_UpsertIdempotent ==
    /\ Quiescent =>
          \A u \in SeqUsernames, r \in SeqRatingInputs :
              Upserted(Upserted(EngineState, u, r), u, r) = Upserted(EngineState, u, r)
    /\ \A t \in Threads :
          pc[t] = "u_unlock" =>
              Upserted(EngineState, op[t].username, op[t].rating) = EngineState

\* C14 witness: a call has moved an existing user into a cell that now counts
\* two users (so its first application changed two cells), and applying it
\* again changes nothing.
C14_Witness ==
    \E t \in Threads :
        /\ pc[t] = "u_unlock"
        /\ Cardinality(DOMAIN users) = 3
        /\ scoreBuckets[op[t].rating] = 2
        /\ Upserted(EngineState, op[t].username, op[t].rating) = EngineState

\* the engine state after AddOrUpdateUser(u, a) followed by AddOrUpdateUser(u, b)
UpsertedTwice(u, a, b) == Upserted(Upserted(EngineState, u, a), u, b)

\* 1 if u is in the directory with rating r, else 0
HeldAt(u, r) == IF u \in DOMAIN users /\ users[u].Rating = r THEN 1 ELSE 0

\* C15 as stated: for every pre-state, every username u, present or absent,
\* and all valid ratings a and b, after AddOrUpdateUser(u, a) followed by
\* AddOrUpdateUser(u, b) the cell B[a] has its pre-state value and B[b] its
\* pre-state value plus 1.
C15_TwoUpsertsAsStated ==
    Quiescent =>
        \A u \in SeqUsernames, a \in Ratings, b \in Ratings :
            /\ UpsertedTwice(u, a, b).scoreBuckets[a] = scoreBuckets[a]
            /\ UpsertedTwice(u, a, b).scoreBuckets[b] = scoreBuckets[b] + 1

\* C15 as stated, for distinct ratings only: it fails as well, on a user that
\* holds rating a or rating b in the pre-state.
C15_TwoUpsertsDistinctRatings ==
    Quiescent =>
        \A u \in SeqUsernames, a \in Ratings, b \in Ratings :
            a # b =>
                /\ UpsertedTwice(u, a, b).scoreBuckets[a] = scoreBuckets[a]
                /\ UpsertedTwice(u, a, b).scoreBuckets[b] = scoreBuckets[b] + 1

\* C15 amended: after AddOrUpdateUser(u, a) followed by AddOrUpdateUser(u, b)
\* with valid a and b, every cell B[r] has its pre-state value, plus 1 if
\* r = b, minus 1 if u was in the directory with rating r; hence B[a] is
\* unchanged and B[b] is one more whenever a # b and u was absent or rated
\* neither a nor b.
C15_TwoUpsertsNetEffect ==
    Quiescent =>
        \A u \in SeqUsernames, a \in Ratings, b \in Ratings :
            /\ \A r \in 0..(BucketSize - 1) :
                  UpsertedTwice(u, a, b).scoreBuckets[r]
                     = scoreBuckets[r] + (IF r = b THEN 1 ELSE 0) - HeldAt(u, r)
            /\ (a # b /\ HeldAt(u, a) = 0 /\ HeldAt(u, b) = 0) =>
                  /\ UpsertedTwice(u, a, b).scoreBuckets[a] = scoreBuckets[a]
                  /\ UpsertedTwice(u, a, b).scoreBuckets[b] = scoreBuckets[b] + 1

\* C15 witness: a quiescent state where some user is rated b, so that the two
\* calls leave both B[a] and B[b] at their pre-state values, and some user is
\* rated a # b, so that they leave B[a] one less and B[b] one more.
C15_Witness ==
    /\ Quiescent
    /\ \E u \in DOMAIN users, a \in Ratings, b \in Ratings :
          /\ a # b
          /\ users[u].Rating = b
          /\ UpsertedTwice(u, a, b).scoreBuckets[b] = scoreBuckets[b]
          /\ UpsertedTwice(u, a, b).scoreBuckets[a] = scoreBuckets[a]
    /\ \E u \in DOMAIN users, a \in Ratings, b \in Ratings :
          /\ a # b
          /\ users[u].Rating = a
          /\ UpsertedTwice(u, a, b).scoreBuckets[a] = scoreBuckets[a] - 1
          /\ UpsertedTwice(u, a, b).scoreBuckets[b] = scoreBuckets[b] + 1

\* ---------------------------------------------------------------------
\* What a limit parameter says, stated without the handler's scan.

AllDigits(s) == s # << >> /\ \A i \in 1..Len(s) : s[i] \in 48..57

RECURSIVE Decimal(_)
Decimal(s) ==
    IF s = << >> THEN 0 ELSE 10 * Decimal(SubSeq(s, 1, Len(s) - 1)) + (s[Len(s)] - 48)

\* the string is a decimal integer, possibly negative
IsInteger(s) == AllDigits(s) \/ (Len(s) >= 2 /\ s[1] = 45 /\ AllDigits(Tail(s)))

IntegerOf(s) == IF s[1] = 45 THEN 0 - Decimal(Tail(s)) ELSE Decimal(s)

\* goroutine t serves a GET /leaderboard request
ServesLeaderboard(t) == op[t].kind = "top" /\ "request" \in DOMAIN op[t]

LimitParam(t) == QueryGet(op[t].request.params, "limit")

\* C16: a GET /leaderboard whose limit is an integer above LimitMax is served
\* with the limit LimitMax: it returns LimitMax rows when the directory holds
\* at least LimitMax users (and all users otherwise).
C16_LimitClampedToMax ==
    \A t \in Threads :
        (Answered(t) /\ ServesLeaderboard(t)
           /\ IsInteger(LimitParam(t)) /\ IntegerOf(LimitParam(t)) > LimitMax)
        => Len(resp[t].rows) = Min(LimitMax, Cardinality(DOMAIN snap[t]))

\* the limit parameter is missing, is no integer, or is zero or negative
LimitUnusable(s) == s = << >> \/ ~IsInteger(s) \/ IntegerOf(s) <= 0

\* C17: a GET /leaderboard whose limit is missing, is no integer, or is zero
\* or negative is served with the limit LimitDefault, and one whose limit is
\* an integer n in [1, LimitMax] with the limit n; the request is answered
\* with the leaderboard for that limit and leaves the directory and the
\* buckets as they were when it took the read lock.
C17_LimitDefaultOrGiven ==
    \A t \in Threads :
        ServesLeaderboard(t) =>
            /\ LimitUnusable(LimitParam(t)) => op[t].limit = LimitDefault
            /\ (IsInteger(LimitParam(t)) /\ IntegerOf(LimitParam(t)) \in 1..LimitMax)
                  => op[t].limit = IntegerOf(LimitParam(t))
            /\ Answered(t) =>
                  /\ resp[t].kind = "rows"
                  /\ resp[t].rows = ExpectedTop(snap[t], op[t].limit)
            /\ pc[t] \in {"t_scan", "t_build", "done"} =>
                  /\ Ratingof(users) = snap[t]
                  /\ \A r \in 0..(BucketSize - 1) : scoreBuckets[r] = GroupSize(snap[t], r)

\* C17 restricted to limits that are missing or are integers: this part the
\* handler meets.
C17_IntegerLimits ==
    \A t \in Threads :
        (ServesLeaderboard(t) /\ (LimitParam(t) = << >> \/ IsInteger(LimitParam(t)))) =>
            /\ LimitUnusable(LimitParam(t)) => op[t].limit = LimitDefault
            /\ (IsInteger(LimitParam(t)) /\ IntegerOf(LimitParam(t)) \in 1..LimitMax)
                  => op[t].limit = IntegerOf(LimitParam(t))
            /\ Answered(t) =>
                  /\ resp[t].kind = "rows"
                  /\ resp[t].rows = ExpectedTop(snap[t], op[t].limit)
            /\ pc[t] \in {"t_scan", "t_build", "done"} =>
                  /\ Ratingof(users) = snap[t]
                  /\ \A r \in 0..(BucketSize - 1) : scoreBuckets[r] = GroupSize(snap[t], r)

\* C18 as stated: GetTopLeaderboard called with limit 0 or a negative limit
\* behaves as with limit LimitDefault: it returns min(LimitDefault, |D|) rows,
\* the leaderboard for that limit.
C18_EngineClampsLimit ==
    \A t \in Threads :
        (Answered(t) /\ op[t].kind = "top" /\ op[t].limit <= 0) =>
            /\ Len(resp[t].rows) = Min(LimitDefault, Cardinality(DOMAIN snap[t]))
            /\ resp[t].rows = ExpectedTop(snap[t], LimitDefault)

\* C18 amended: GetTopLeaderboard does not clamp: called with limit 0 or a
\* negative limit it returns no rows, whatever the directory holds.
C18_NoRowsForNonPositiveLimit ==
    \A t \in Threads :
        (Answered(t) /\ op[t].kind = "top" /\ op[t].limit <= 0) => resp[t].rows = << >>

\* C18 witness: the directory holds four users and GetTopLeaderboard(0) has
\* returned no rows.
C18_Witness ==
    \E t \in Threads :
        /\ Answered(t)
        /\ op[t].kind = "top"
        /\ op[t].limit = 0
        /\ Cardinality(DOMAIN snap[t]) = 4
        /\ resp[t].rows = << >>

\* C18 witness, negative limit.
C18_WitnessNegative ==
    \E t \in Threads :
        /\ Answered(t)
        /\ op[t].kind = "top"
        /\ op[t].limit < 0
        /\ Cardinality(DOMAIN snap[t]) = 4
        /\ resp[t].rows = << >>

\* goroutine t starts a call in this step
Starts(t) == pc[t] = "idle" /\ pc'[t] # "idle"

\* C19: SearchUsers with the empty query returns the empty sequence in the
\* step of the call, without touching the lock, and can do so in every state
\* in which its goroutine is free, whoever holds the lock; a GET /search whose
\* username is absent or empty is answered 400 in the step of the request,
\* without a call of the engine and without a change of the directory, the
\* buckets or the lock.
C19_EmptyQueryShortCircuit ==
    /\ [][\A t \in Threads :
            /\ (Starts(t) /\ op'[t].kind = "search" /\ op'[t].query = << >>) =>
                  /\ pc'[t] = "done"
                  /\ resp'[t] = [kind |-> "results", rows |-> << >>]
                  /\ mu' = mu
                  /\ users' = users
                  /\ scoreBuckets' = scoreBuckets
            /\ (Starts(t) /\ op'[t].kind = "handleSearch"
                  /\ op'[t].request.method = "GET") =>
                  /\ QueryGet(op'[t].request.params, "username") = << >>
                  /\ pc'[t] = "done"
                  /\ resp'[t] = [kind |-> "status", status |-> 400]
                  /\ mu' = mu
                  /\ users' = users
                  /\ scoreBuckets' = scoreBuckets
            /\ (Starts(t) /\ op'[t].kind = "search" /\ "request" \in DOMAIN op'[t]) =>
                  op'[t].query # << >>]_vars
    /\ [](\A t \in Callers : pc[t] = "idle" => ENABLED SearchUsers(t, << >>))

\* C19 witness: SearchUsers("") has returned the empty sequence while another
\* goroutine holds the exclusive lock inside the write critical section.
C19_Witness ==
    \E t, w \in Threads :
        /\ Answered(t)
        /\ op[t].kind = "search"
        /\ op[t].query = << >>
        /\ resp[t].rows = << >>
        /\ pc[w] = "u_store"
        /\ mu.writer = w

\* C19 witness, HTTP: a GET /search without username has been answered 400
\* while another goroutine is inside the write critical section.
C19_WitnessRefused ==
    \E t, w \in Threads :
        /\ Answered(t)
        /\ op[t].kind = "handleSearch"
        /\ op[t].request.params = {}
        /\ resp[t].status = 400
        /\ pc[w] = "u_store"
        /\ mu.writer = w

\* C20: on the empty engine GetTopLeaderboard returns no rows, for the limit
\* LimitDefault as for any other; SearchUsers returns no rows for every
\* non-empty query; /stats reports total_users = 0; and CalculateRank(r) = 1
\* for every r in [MinRating, MaxRating].
C20_EmptyEngine ==
    /\ (DOMAIN users = {} /\ Quiescent) => \A r \in Ratings : CalculateRank(r) = 1
    /\ \A t \in Threads :
          (Answered(t) /\ DOMAIN snap[t] = {}) =>
              /\ op[t].kind = "top" => resp[t].rows = << >>
              /\ (op[t].kind = "search" /\ op[t].query # << >>) => resp[t].rows = << >>
              /\ op[t].kind = "stats" => resp[t].total_users = 0

\* C20 witness: no user was ever upserted and GetTopLeaderboard(LimitDefault)
\* has returned no rows.
C20_Witness ==
    \E t \in Threads :
        /\ Answered(t)
        /\ op[t].kind = "top"
        /\ op[t].limit = LimitDefault
        /\ DOMAIN users = {}
        /\ SumBuckets = 0
        /\ resp[t].rows = << >>
        /\ \A r \in Ratings : CalculateRank(r) = 1

\* C20 witness, search: the query "a" has returned no rows on the empty engine.
C20_WitnessSearch ==
    \E t \in Threads :
        /\ Answered(t)
        /\ op[t].kind = "search"
        /\ op[t].query = <<97>>
        /\ DOMAIN users = {}
        /\ resp[t].rows = << >>

\* C20 witness, stats: total_users = 0 has been reported.
C20_WitnessStats ==
    \E t \in Threads :
        /\ Answered(t)
        /\ op[t].kind = "stats"
        /\ DOMAIN users = {}
        /\ resp[t].total_users = 0

\* C21: in every quiescent state CalculateRank(MaxRating) = 1 and
\* CalculateRank(MinRating) = 1 + |D| - scoreBuckets[MinRating].
C21_RankAtRangeEnds ==
    Quiescent =>
        /\ CalculateRank(MaxRating) = 1
        /\ CalculateRank(MinRating) = 1 + DirectorySize - scoreBuckets[MinRating]

\* C21 witness: four users, two of them at MinRating and one at MaxRating:
\* the rank of MaxRating is 1 and the rank of MinRating is 3.
C21_Witness ==
    /\ Quiescent
    /\ DirectorySize = 4
    /\ scoreBuckets[MinRating] = 2
    /\ scoreBuckets[MaxRating] = 1
    /\ CalculateRank(MaxRating) = 1
    /\ CalculateRank(MinRating) = 3

\* goroutine t runs the simulator
IsSimulator(t) == sim.g = t

\* C22: every AddOrUpdateUser call the simulator issues carries a rating in
\* [MinRating, MaxRating], and none of them returns the invalid-rating error.
C22_SimulatorRatingsValid ==
    \A t \in Threads :
        (IsSimulator(t) /\ op[t].kind = "upsert") =>
            /\ op[t].rating >= MinRating
            /\ op[t].rating <= MaxRating
            /\ resp[t].kind # "error"

\* C22 witness: the second update of a batch, with rating MaxRating, has
\* returned nil.
C22_Witness ==
    \E t \in Threads :
        /\ IsSimulator(t)
        /\ pc[t] = "done"
        /\ op[t].rating = MaxRating
        /\ resp[t].kind = "ok"
        /\ sim.i = 1

\* C22 witness, lower end: a simulator update with rating MinRating has returned nil.
C22_WitnessLow ==
    \E t \in Threads :
        IsSimulator(t) /\ pc[t] = "done" /\ op[t].rating = MinRating /\ resp[t].kind = "ok"

\* ------------------------------------------------------------------- C23

\* the simulator holds or has announced the exclusive lock
SimHoldsWrite(t) == mu.writer = t

\* the simulator is in the middle of a batch, between or inside its updates
InBatch(t) == IsSimulator(t) /\ pc[t] \notin {"idle", "sim_select", "sim_rlock", "sim_scan", "sim_exit"}

\* C23: the simulator is among the holders of the shared lock exactly while it
\* scans the directory, so it has released the lock on both ways out of the
\* scan (empty directory or snapshot taken); at the call of AddOrUpdateUser
\* and between two updates of a batch it holds no lock at all, and it holds
\* the exclusive lock only inside the one update it is running.
C23_SimulatorLockDiscipline ==
    \A t \in Threads :
      IsSimulator(t) =>
        /\ t \in mu.readers <=> pc[t] = "sim_scan"
        /\ pc[t] \in {"sim_select", "sim_rlock", "sim_batch", "u_lock", "done", "sim_exit"}
             => ~SimHoldsWrite(t) /\ t \notin mu.readers
        /\ SimHoldsWrite(t) => pc[t] \in {"u_wait", "u_dec", "u_inc", "u_store", "u_unlock"}

\* reached: the simulator is between the first and the second update of one
\* batch and another goroutine is inside a read critical section, which it
\* can only have entered after the first update released the exclusive lock
C23_Witness ==
    \E t \in Threads, r \in Threads :
      /\ IsSimulator(t)
      /\ pc[t] = "sim_batch"
      /\ sim.i = 1
      /\ sim.i < UpdateCount(sim.names)
      /\ r # t
      /\ ReaderInCS(r)
      /\ r \in mu.readers

\* reached: the simulator has left the scan by the early exit (the directory
\* is empty and the tick is used up) and is back at the select without the lock
C23_WitnessEmpty ==
    \E t \in Threads :
      /\ IsSimulator(t)
      /\ pc[t] = "sim_select"
      /\ DOMAIN users = {}
      /\ ~sim.tick
      /\ sim.stopped
      /\ t \notin mu.readers

\* ------------------------------------------------------------------- C24

\* C24 (as stated, its safety part): the simulator leaves the loop only with no
\* batch in progress, and after the stop signal has been delivered it issues
\* no Upsert from a tick that fired later than the signal.
C24_NoUpsertAfterStop ==
    \A t \in Threads :
      IsSimulator(t) =>
        /\ pc[t] = "sim_exit" => sim.names = {} /\ sim.i = 0
        /\ sim.late => op[t].kind # "upsert"

\* C24, the part that holds: the stop signal takes effect only at the select;
\* a batch that has begun is left only by the end of its loop, with all its
\* updates made, whether or not stopChan has been closed meanwhile.
C24_BatchCompletes ==
    [][\A t \in Threads :
         /\ (IsSimulator(t) /\ pc'[t] = "sim_exit" /\ pc[t] # "sim_exit")
              => pc[t] = "sim_select" /\ sim.stopped
         /\ (InBatch(t) /\ pc'[t] = "sim_select")
              => pc[t] = "sim_batch" /\ sim.i = UpdateCount(sim.names)]_vars

\* C24, the part that holds under SpecSimFair: once stopChan is closed, the
\* running simulator eventually leaves its loop.
C24_StopTerminates ==
    (sim.stopped /\ sim.g # 0) ~> (\E t \in Threads : IsSimulator(t) /\ pc[t] = "sim_exit")

\* reached: stopChan is closed in the middle of a batch, which goes on to its
\* second update
C24_WitnessMidBatch ==
    \E t \in Threads :
      /\ IsSimulator(t)
      /\ sim.stopped
      /\ ~sim.late
      /\ sim.i = 1
      /\ pc[t] = "u_store"

\* ------------------------------------------------------------------- C25

\* the usernames the seed loop stores
SeedNames == {SeedName(i) : i \in 0..(SeedCount - 1)}

\* a goroutine is serving a request
ServingRequest(t) ==
    /\ ~IsSimulator(t)
    /\ op[t].kind \in {"search", "top", "stats", "handleSearch", "handleLeaderboard", "handleStats"}

\* C25: whenever the simulator has been started, the server listens or a
\* request is being served, the seed loop has made all its SeedCount upserts
\* and the directory holds exactly the users user_0 .. user_{SeedCount-1}; a
\* request is served only by the listening server, and what it reads under
\* the lock is a directory of exactly those users.
C25_BootstrapOrdering ==
    /\ (sim.g # 0 \/ Serving \/ \E t \in Threads : ServingRequest(t)) =>
          /\ boot.i = SeedCount
          /\ DOMAIN users = SeedNames
          /\ Cardinality(DOMAIN users) = SeedCount
          /\ SumBuckets = SeedCount \/ ~Quiescent
    /\ \A t \in Threads :
          /\ ServingRequest(t) => Serving /\ sim.g # 0
          /\ (ServingRequest(t) /\ ReaderInCS(t)) => DOMAIN snap[t] = SeedNames
          /\ (ServingRequest(t) /\ resp[t].kind = "stats") => resp[t].total_users = SeedCount

\* reached: a request is answered from the fully seeded directory while the
\* simulator is in the middle of a batch
C25_Witness ==
    \E t \in Threads, g \in Threads :
      /\ ServingRequest(t)
      /\ resp[t].kind = "stats"
      /\ resp[t].total_users = SeedCount
      /\ IsSimulator(g)
      /\ InBatch(g)
      /\ DOMAIN users = {SeedName(0), SeedName(1)}
      /\ SeedName(1) = <<117, 115, 101, 114, 95, 49>>

\* ------------------------------------------------------------------- C26

\* C26: with readers that leave their critical sections, a call of
\* AddOrUpdateUser that has reached lb.mu.Lock() eventually holds the lock and
\* returns nil, whatever read requests keep arriving meanwhile.
C26_WriterProgress ==
    \A t \in Threads :
      (pc[t] \in {"u_lock", "u_wait"}) ~> (pc[t] = "done" /\ resp[t].kind = "ok")

\* reached: a writer has announced itself and waits for a reader to leave,
\* the state from which a reader-preferring lock could starve it
C26_Witness ==
    \E t \in Threads, r \in Threads :
      /\ pc[t] = "u_wait"
      /\ mu.writer = t
      /\ pc[r] = "st_read"
      /\ r \in mu.readers

\* reached: a read request that arrived after the writer's announcement is
\* held back at RLock
C26_WitnessHeldBack ==
    \E t \in Threads, r \in Threads :
      /\ pc[t] = "u_wait"
      /\ mu.writer = t
      /\ pc[r] = "st_rlock"
      /\ ~CanRLock(r)

\* ------------------------------------------------------------------- C27

\* C27: no step of the upserts, the simulator or the shipped queries removes
\* a username from the directory, so a username once stored is there in every
\* later state, and the number of users never goes down.
C27_UsersNeverDestroyed ==
    [][/\ DOMAIN users \subseteq DOMAIN users'
       /\ Cardinality(DOMAIN users') >= Cardinality(DOMAIN users)
       /\ \A t \in Threads :
            (ReaderInCS(t) /\ ReaderInCS(t)') => DOMAIN snap[t] \subseteq DOMAIN users']_vars

\* reached: the simulator has just rewritten the rating of one of two users,
\* and both are still in the directory
C27_Witness ==
    \E t \in Threads :
      /\ IsSimulator(t)
      /\ pc[t] = "done"
      /\ resp[t].kind = "ok"
      /\ op[t].username \in DOMAIN users
      /\ users[op[t].username].Rating = op[t].rating
      /\ Cardinality(DOMAIN users) = 2
      /\ \E u \in DOMAIN users : users[u].Rating # op[t].rating

\* ------------------------------------------------------------------- C28

\* the handler of goroutine t has finished its response
Responded(t) == pc[t] = "done" /\ "headers" \in DOMAIN op[t]

\* the response carries the header with that value
Carries(t, name, value) ==
    name \in DOMAIN op[t].headers /\ op[t].headers[name] = value

\* C28 (as stated): every response of /search, /leaderboard and /stats carries
\* Access-Control-Allow-Origin: *, Access-Control-Allow-Methods: GET, OPTIONS
\* and Access-Control-Allow-Headers: Content-Type.
C28_CorsHeaders ==
    \A t \in Threads :
      Responded(t) =>
        /\ Carries(t, "Access-Control-Allow-Origin", "*")
        /\ Carries(t, "Access-Control-Allow-Methods", "GET, OPTIONS")
        /\ Carries(t, "Access-Control-Allow-Headers", "Content-Type")

\* C28, the part that holds: every response carries the first two headers,
\* and none carries Access-Control-Allow-Headers.
C28_OriginAndMethodsOnly ==
    \A t \in Threads :
      Responded(t) =>
        /\ Carries(t, "Access-Control-Allow-Origin", "*")
        /\ Carries(t, "Access-Control-Allow-Methods", "GET, OPTIONS")
        /\ "Access-Control-Allow-Headers" \notin DOMAIN op[t].headers
        /\ Carries(t, "Content-Type",
                   IF resp[t].kind = "status" /\ resp[t].status = 400
                   THEN "text/plain; charset=utf-8" ELSE "application/json")

\* reached: a request to /search is answered 400
C28_Witness ==
    \E t \in Threads :
      /\ Responded(t)
      /\ resp[t].kind = "status"
      /\ resp[t].status = 400

\* reached: the OPTIONS request to /stats is answered
C28_WitnessOptions ==
    \E t \in Threads :
      /\ Responded(t)
      /\ op[t].kind = "handleStats"
      /\ resp[t].status = 200

\* ------------------------------------------------------------------- C29

\* goroutine t is inside one of the read operations: SearchUsers,
\* GetTopLeaderboard (either with the CalculateRank calls they make),
\* handleStats, or the snapshot step of the simulator
InReadOperation(t) ==
    \/ op[t].kind \in {"search", "top", "stats"}
    \/ pc[t] \in {"sim_rlock", "sim_scan"}

\* goroutine t takes a step
Moves(t) == pc'[t] # pc[t] \/ op'[t] # op[t] \/ visited'[t] # visited[t]
              \/ usersByRating'[t] # usersByRating[t] \/ matches'[t] # matches[t]
              \/ resp'[t] # resp[t]

\* C29: a step of a read operation leaves the directory and every bucket cell
\* as they are, and a step that changes either is a step of AddOrUpdateUser
\* by the goroutine that holds the exclusive lock, with no reader inside.
C29_OnlyUpsertWrites ==
    [][/\ \A t \in Threads : (InReadOperation(t) /\ Moves(t)) => UNCHANGED engine
       /\ engine' # engine =>
            \E t \in Threads :
              /\ op[t].kind = "upsert"
              /\ WriterInCS(t)
              /\ Moves(t)
              /\ mu.writer = t
              /\ mu.readers = {}
              /\ \A r \in Threads \ {t} : ~Moves(r)]_vars

\* reached: the simulator takes its snapshot while a leaderboard read is
\* part-way through its own scan of a directory of two users
C29_Witness ==
    \E t \in Threads, g \in Threads :
      /\ IsSimulator(g)
      /\ pc[g] = "sim_scan"
      /\ op[t].kind = "top"
      /\ pc[t] = "t_scan"
      /\ visited[t] # {}
      /\ Cardinality(DOMAIN users) = 2

\* ------------------------------------------------------------------- C30

\* goroutine t, in GetLeaderboard, has deleted a user it has yet to restore
HoldsDeleted(t) == pc[t] = "g_restore" /\ op[t].username # << >>

\* C30: a GetLeaderboard call that has deleted a user and not yet restored it
\* holds the shared lock and not the exclusive one, the user is missing from
\* the directory, and as long as no writer is inside, the buckets exceed the
\* directory by exactly the number of such calls.
C30_WritesUnderSharedLock ==
    /\ \A t \in Threads :
         HoldsDeleted(t) =>
           /\ t \in mu.readers
           /\ \A w \in Threads : ~WriterInCS(w)
           /\ op[t].username \notin DOMAIN users
    /\ (Quiescent /\ \E t \in Threads : pc[t] # "fatal") =>
         SumBuckets = DirectorySize + Cardinality({t \in Threads : HoldsDeleted(t)})

\* reached: while a GetLeaderboard call has a user deleted, another reader is
\* inside its read critical section and is about to read a directory that
\* is smaller than the sum of the buckets
C30_Witness ==
    \E t \in Threads : \E r \in Threads \ {t} :
      /\ HoldsDeleted(t)
      /\ pc[r] = "st_read"
      /\ r \in mu.readers
      /\ SumBuckets # DirectorySize

\* reached: two GetLeaderboard calls, both under the shared lock, both with
\* a user deleted and the write that restores it still to make
C30_WitnessTwoWriters ==
    \E t \in Threads : \E r \in Threads \ {t} :
      /\ HoldsDeleted(t)
      /\ HoldsDeleted(r)
      /\ {t, r} \subseteq mu.readers
      /\ SumBuckets = DirectorySize + 2

\* ------------------------------------------------------------------- C31

\* 1 if c is the cell of rating r, else 0
IsCell(c, r) == IF c = r THEN 1 ELSE 0

\* C31: from every state with no write in progress, a call AddOrUpdateUser(u, r)
\* with a valid rating leaves u's record as (u, r) and every other user's
\* record as it was, adds u to the directory and nothing else (so |D| grows by
\* one exactly when u was absent), and changes each bucket cell by: one less
\* if u held that rating, one more if it is the cell of r.
C31_UpsertFrame ==
    Quiescent =>
      \A u \in SeqUsernames, r \in Ratings :
        LET e == Upserted(EngineState, u, r)
        IN /\ DOMAIN e.users = DOMAIN users \cup {u}
           /\ e.users[u] = [Username |-> u, Rating |-> r]
           /\ \A v \in DOMAIN users \ {u} : e.users[v] = users[v]
           /\ Cardinality(DOMAIN e.users) =
                DirectorySize + (IF u \in DOMAIN users THEN 0 ELSE 1)
           /\ \A c \in DOMAIN scoreBuckets :
                e.scoreBuckets[c] = scoreBuckets[c] - HeldAt(u, c) + IsCell(c, r)
           /\ DOMAIN e.scoreBuckets = DOMAIN scoreBuckets

\* reached: a call has returned after moving one of three users to a rating
\* that another user holds, the third user being at a different rating
C31_Witness ==
    \E t \in Threads :
      /\ pc[t] = "done"
      /\ resp[t].kind = "ok"
      /\ op[t].kind = "upsert"
      /\ Cardinality(DOMAIN users) = 3
      /\ users[op[t].username].Rating = op[t].rating
      /\ scoreBuckets[op[t].rating] = 2
      /\ \E v \in DOMAIN users : users[v].Rating # op[t].rating

\* ------------------------------------------------------------------- C32

\* C32: in every state, also in the middle of a write, every user in the
\* directory has a rating within [MinRating, MaxRating], no bucket cell is
\* negative, and the cells below MinRating are 0.
C32_RatingsAndCellsInRange ==
    /\ \A u \in DOMAIN users :
         users[u].Rating >= MinRating /\ users[u].Rating <= MaxRating
    /\ \A c \in DOMAIN scoreBuckets : scoreBuckets[c] >= 0
    /\ \A c \in DOMAIN scoreBuckets : c < MinRating => scoreBuckets[c] = 0

\* reached: a call with a rating below MinRating has been refused while a
\* writer, having decremented the only user's cell to 0, is inside its
\* critical section
C32_Witness ==
    \E t \in Threads : \E w \in Threads \ {t} :
      /\ pc[t] = "done"
      /\ resp[t].kind = "error"
      /\ op[t].rating < MinRating
      /\ pc[w] = "u_inc"
      /\ op[w].username \in DOMAIN users
      /\ scoreBuckets[users[op[w].username].Rating] = 0

\* ------------------------------------------------------------------- C33

\* the number of Upserts the simulator has issued in the batch under way
Issued == Len(sim.drawn)

\* what holds of the batch under way in every state
BatchSoFar(t) ==
    /\ \A k \in 1..Issued : sim.drawn[k] \in sim.names
    /\ Issued <= Min(BatchSize, Cardinality(sim.names))
    /\ pc[t] = "sim_batch" => Issued = sim.i
    /\ op[t].kind = "upsert" => Issued = sim.i + 1 /\ sim.drawn[Issued] = op[t].username
    /\ pc[t] \in {"sim_select", "sim_rlock", "sim_scan", "sim_exit"} => Issued = 0

C33_WitnessSmall ==
    \E t \in Threads :
      /\ IsSimulator(t)
      /\ pc[t] = "sim_batch"
      /\ Cardinality(sim.names) = 1
      /\ sim.i = 1
      /\ Issued = 1

\* reached: a tick finds the directory empty
C33_WitnessEmpty ==
    \E t \in Threads :
      /\ IsSimulator(t)
      /\ pc[t] = "sim_scan"
      /\ DOMAIN users = {}

\* ------------------------------------------------------------------- C34

\* every name of the simulator's snapshot, and the name of the Upsert it is
\* making, is a user of the directory
SnapshotNamesPresent ==
    \A t \in Threads :
      IsSimulator(t) =>
        /\ sim.names \subseteq DOMAIN users
        /\ op[t].kind = "upsert" => op[t].username \in DOMAIN users

\* C34: in the program as main runs it, every username the simulator upserts
\* is in the directory throughout the Upsert, so the Upsert adds no user; from
\* the start of the simulator on the directory has SeedCount users, and every
\* answer of /stats says total_users = SeedCount.
C34_SimulatorCreatesNoUser ==
    /\ SnapshotNamesPresent
    /\ sim.g # 0 => DirectorySize = SeedCount
    /\ \A t \in Threads :
         (op[t].kind = "stats" /\ pc[t] = "done") =>
            resp[t].kind = "stats" /\ resp[t].total_users = SeedCount

\* C34, with a stale snapshot: while another goroutine adds users and changes
\* ratings between the snapshot and the Upserts, the names of the snapshot
\* are still all in the directory.
C34_StaleSnapshotNamesPresent == SnapshotNamesPresent

\* reached: /stats is answered SeedCount after the simulator has rewritten a
\* rating and while it is making the next Upsert of its batch
C34_Witness ==
    \E t \in Threads : \E g \in Threads \ {t} :
      /\ IsSimulator(g)
      /\ sim.i = 1
      /\ op[g].kind = "upsert"
      /\ pc[g] = "u_store"
      /\ op[t].kind = "stats"
      /\ pc[t] = "done"
      /\ resp[t].total_users = SeedCount

\* reached: the simulator makes an Upsert from a snapshot that lacks a user
\* the directory has since gained
C34_WitnessStale ==
    \E g \in Threads :
      /\ IsSimulator(g)
      /\ op[g].kind = "upsert"
      /\ pc[g] = "u_store"
      /\ sim.names # DOMAIN users

\* ------------------------------------------------------------------- C35

\* every row has the rank CalculateRank gives its rating on the bucket array
\* as it stands
RanksFromBuckets(rows) ==
    \A i \in 1..Len(rows) : rows[i].Rank = CalculateRank(rows[i].Rating)

InOperation(t) ==
    pc[t] \in {"u_lock", "u_wait", "u_dec", "u_inc", "u_store", "u_unlock",
               "s_rlock", "s_scan", "t_rlock", "t_scan", "t_build",
               "st_rlock", "st_read", "sim_rlock", "sim_scan"}

\* goroutine t is at a call of RLock or Lock
RequestsLock(t) == pc[t] \in {"u_lock", "s_rlock", "t_rlock", "st_rlock", "sim_rlock"}

\* goroutine t is outside every operation
Outside(t) == pc[t] \in {"idle", "done", "sim_select", "sim_batch", "sim_exit"}

\* goroutine t holds lb.mu in either mode, or has announced itself as writer
HoldsLock(t) == t \in mu.readers \/ mu.writer = t

C37_KeysNonEmpty == \A username \in DOMAIN users : username # << >>

\* ------------------------------------------------------------------- C38
\* what SearchResultsList shows as rows: none while isLoading (the spinner),
\* otherwise the rows of data ("No results found" for an empty list)
Displayed == IF searchScreen.isLoading THEN << >> ELSE searchScreen.results

\* the keystroke i is followed by the next one in less than the delay
FollowedWithinDelay(i) ==
    /\ i < Len(clientLog.keys)
    /\ clientLog.keys[i + 1].at - clientLog.keys[i].at < Debounce

\* C38: search debounce. A timer that is pending is the one of the last
\* keystroke, so the earlier ones are cancelled; a keystroke that is followed
\* by another within the delay sends no request, so that a run of keystrokes
\* each within the delay of the one before sends at most one request; a
\* request is sent by the timer of the last keystroke, for that keystroke's
\* query, which is not blank, once, and not before the delay has passed since
\* that keystroke; a blank query sends no request.
C38_Debounce ==
    /\ \A tm \in runtime.timers :
         /\ clientLog.keys # << >>
         /\ tm.id = clientLog.keys[Len(clientLog.keys)].timer
    /\ \A i \in 1..Len(clientLog.keys) :
         (FollowedWithinDelay(i) \/ Blank(clientLog.keys[i].query))
            => \A s \in clientLog.sent : s.timer # clientLog.keys[i].timer
    /\ \A s \in clientLog.sent :
         /\ ~Blank(s.query)
         /\ s.after \in 1..Len(clientLog.keys)
         /\ clientLog.keys[s.after].timer = s.timer
         /\ clientLog.keys[s.after].query = s.query
         /\ s.at >= clientLog.keys[s.after].at + Debounce
         /\ \A s2 \in clientLog.sent : s2.timer = s.timer => s2 = s

\* reached: two keystrokes with non-blank queries, the second within the
\* delay of the first, and one request sent, for the second query
C38_Witness ==
    /\ Len(clientLog.keys) = 2
    /\ FollowedWithinDelay(1)
    /\ clientLog.keys[1].timer # 0
    /\ clientLog.keys[1].query # clientLog.keys[2].query
    /\ Cardinality(clientLog.sent) = 1
    /\ \E s \in clientLog.sent : s.query = clientLog.keys[2].query

\* reached: a query typed and cleared within the delay, the delay over, and
\* no request sent
C38_WitnessBlank ==
    /\ Len(clientLog.keys) = 2
    /\ FollowedWithinDelay(1)
    /\ clientLog.keys[1].timer # 0
    /\ Blank(clientLog.keys[2].query)
    /\ runtime.now >= clientLog.keys[2].at + Debounce
    /\ clientLog.sent = {}

\* ------------------------------------------------------------------- C39
\* C39: the search screen's results belong to the most recent query: while
\* the query is blank no row is displayed, and results that answer the
\* current query are not replaced by the answer to another query as long as
\* the query stays as it is.
C39_ResultsBelongToQuery ==
    /\ [](Blank(searchScreen.searchQuery) => Displayed = << >>)
    /\ [][(/\ searchScreen.shown = <<searchScreen.searchQuery>>
           /\ searchScreen'.searchQuery = searchScreen.searchQuery)
             => searchScreen'.shown = <<searchScreen.searchQuery>>]_vars

\* ------------------------------------------------------------------- C40
\* a load-more has succeeded in this step: its response set the list and
\* advanced the page
LoadMoreSucceeds ==
    /\ leaderboardScreen.isLoadingMore
    /\ ~leaderboardScreen'.isLoadingMore
    /\ leaderboardScreen'.page = leaderboardScreen.page + 1

\* C40: with a population of at least LimitMax users that does not change,
\* every successful load-more leaves the displayed list at least as long as
\* it was, at every page the client reaches.
C40_ListNeverShrinks ==
    [][(DirectorySize >= LimitMax /\ LoadMoreSucceeds)
         => Len(leaderboardScreen'.data) >= Len(leaderboardScreen.data)]_vars

\* up to the page whose limit is LimitMax the list does not shrink
C40_GrowsUpToLimitMax ==
    [][(/\ DirectorySize >= LimitMax
        /\ LoadMoreSucceeds
        /\ PageSize * leaderboardScreen'.page <= LimitMax)
         => Len(leaderboardScreen'.data) >= Len(leaderboardScreen.data)]_vars

====
